---- MODULE Spec2Model ----
(***************************************************************************)
(* A model of libcaf: the staging index with its lock-file protocol        *)
(* (libcaf/index.py), the checkout engine (libcaf/checkout.py), the tree   *)
(* diff it consumes (libcaf/diff.py) and the reference handling of the     *)
(* repository facade (libcaf/repository.py, libcaf/ref.py).                *)
(***************************************************************************)
EXTENDS Integers, Sequences, FiniteSets, TLC

(***************************************************************************)
(* Bounds of the model.                                                    *)
(***************************************************************************)
\* index operations started over one behaviour
MaxOps == 2
\* reads of the index started over one behaviour
MaxReads == 1
\* inodes the modelled directory can hold at one time
NumInodes == 4
\* failed attempts after which the wait budget max_wait_seconds is used up
MaxWaitTries == 2

Writers == {"w1", "w2"}
Readers == {"r1"}

\* characters that occur in index paths, by code point order
Chars == <<"\n", " ", "/", "M", "a", "b", "m">>
\* repository-relative paths handed to update_index
IndexPaths == {<<"a">>, <<"a", "b">>, <<"b">>}
\* blob hashes (single tokens over HASH_CHARSET, no blank inside)
IndexHashes == {"h1"}
\* None of merge_index's new_hash: the entry is removed
NoHash == "none"

VARIABLES
    \* ---- staging index (index.py) ----
    dirIndex,     \* inode the name `index' refers to, 0 when the file is missing
    dirLock,      \* inode the name `index.lock' refers to, 0 when missing
    inodes,       \* inode -> content, a sequence of characters / hash tokens
    wpc,          \* writer -> position in update_index / merge_index
    wop,          \* writer -> [path, hash] arguments of the running merge_index
    wlock,        \* writer -> inode of its open lock_file handle (0: none)
    wold,         \* writer -> inode of its open old_index handle (0: none)
    wpos,         \* writer -> number of old index lines consumed
    winserted,    \* writer -> the local `inserted'
    wres,         \* writer -> outcome of its last finished call
    wtries,       \* writer -> failed attempts to create index.lock so far
    rpc,          \* reader -> position in read_index
    rino,         \* reader -> inode of its open index_file handle
    rpos,         \* reader -> number of lines consumed
    rdict,        \* reader -> index_dict built so far
    rseen,        \* reader -> mappings the index file held while the read ran
    serial,       \* mapping obtained by applying the calls in lock order
    serialPrev,   \* writer -> value of serial before its acquisition
    opsStarted,   \* number of update_index calls started
    readsStarted, \* number of read_index calls started
    \* ---- repository (repository.py, checkout.py) ----
    wd,           \* the working directory: path -> node
    objects,      \* hashes of the objects in the object store
    HEAD,         \* content of the HEAD ref file
    refs,         \* path below refs -> content of that ref file
    MERGE_HEAD,   \* content of the MERGE_HEAD file, NoneHash when it is missing
    last          \* the last repository call: operation, arguments, outcome

ivars == <<dirIndex, dirLock, inodes, wpc, wop, wlock, wold, wpos, winserted,
           wres, wtries, rpc, rino, rpos, rdict, rseen, serial, serialPrev,
           opsStarted, readsStarted>>

rvars == <<wd, objects, HEAD, refs, MERGE_HEAD, last>>

vars == <<ivars, rvars>>

(***************************************************************************)
(* Text of the index file.                                                 *)
(***************************************************************************)
CharOrd(c) == CHOOSE i \in 1..Len(Chars) : Chars[i] = c

\* Python's str `<' on two paths
RECURSIVE StrLess(_, _)
StrLess(p, q) ==
    IF q = <<>> THEN FALSE
    ELSE IF p = <<>> THEN TRUE
    ELSE IF Head(p) = Head(q) THEN StrLess(Tail(p), Tail(q))
    ELSE CharOrd(Head(p)) < CharOrd(Head(q))

\* f'{path} {hash}\n'
FormatLine(path, hash) == path \o <<" ">> \o hash \o <<"\n">>

\* the lines a text file iterates over, each without its line terminator
RECURSIVE SplitLines(_, _)
SplitLines(content, cur) ==
    IF content = <<>> THEN (IF cur = <<>> THEN <<>> ELSE <<cur>>)
    ELSE IF Head(content) = "\n" THEN <<cur>> \o SplitLines(Tail(content), <<>>)
    ELSE SplitLines(Tail(content), Append(cur, Head(content)))

FileLines(content) == SplitLines(content, <<>>)

\* position of the last blank of a line, 0 when it has none
LastBlank(line) ==
    LET S == {i \in 1..Len(line) : line[i] = " "}
    IN IF S = {} THEN 0 ELSE CHOOSE i \in S : \A j \in S : j <= i

\* line.rsplit(' ', 1): <<path, hash>>, or <<>> when there are not two parts
ParseLine(line) ==
    LET i == LastBlank(line)
    IN IF i = 0 THEN <<>>
       ELSE <<SubSeq(line, 1, i - 1), SubSeq(line, i + 1, Len(line))>>

\* the dictionary read_index builds from the lines of a file
RECURSIVE DictOfLines(_, _)
DictOfLines(lines, d) ==
    IF lines = <<>> THEN d
    ELSE LET line == Head(lines)
             parts == ParseLine(line)
         IN IF line = <<>> \/ parts = <<>>
            THEN DictOfLines(Tail(lines), d)
            ELSE DictOfLines(Tail(lines),
                   {e \in d : e[1] # parts[1]} \cup {<<parts[1], parts[2]>>})

\* mapping held by the index file: {} when missing
IndexMapping == IF dirIndex = 0 THEN {} ELSE DictOfLines(FileLines(inodes[dirIndex]), {})

\* the mapping after one update_index / remove_from_index applied to m
ApplyOp(m, op) ==
    {e \in m : e[1] # op.path} \cup
    (IF op.hash = NoHash THEN {} ELSE {<<op.path, <<op.hash>> >>})

(***************************************************************************)
(* The directory holding index and index.lock.                             *)
(***************************************************************************)
UsedInodes(di, dl, wl, wo, ri) ==
    ({di, dl} \cup {wl[w] : w \in Writers} \cup {wo[w] : w \in Writers}
              \cup {ri[r] : r \in Readers}) \ {0}

\* an inode no name and no open handle refers to
FreeInode ==
    LET used == UsedInodes(dirIndex, dirLock, wlock, wold, rino)
    IN CHOOSE i \in 1..NumInodes : i \notin used /\ \A j \in 1..NumInodes : j \notin used => i <= j

HasFreeInode == \E i \in 1..NumInodes : i \notin UsedInodes(dirIndex, dirLock, wlock, wold, rino)

\* content of inodes nothing refers to any more is gone
Reclaim(ino, di, dl, wl, wo, ri) ==
    [i \in 1..NumInodes |-> IF i \in UsedInodes(di, dl, wl, wo, ri) THEN ino[i] ELSE <<>>]

InCritical(w) == wpc[w] \in {"check", "merge", "commit"}

ReadersRunning == {r \in Readers : rpc[r] \in {"exists", "open", "read"}}

(***************************************************************************)
(* index_lock_file and merge_index, one step per system call.              *)
(***************************************************************************)
\* variant: index.lock opened with 'w', which never raises FileExistsError
CanCreateExclusive_NotExclusive == TRUE

\* open(lock_path, 'x') succeeds exactly when index.lock is missing
CanCreateExclusive == dirLock = 0

\* variant: the merged lines are written into the index file itself
WriteTarget_InPlace(w) == IF dirIndex # 0 THEN dirIndex ELSE wlock[w]

\* the file lock_file.write() writes to
WriteTarget(w) == wlock[w]

\* what merge_index writes for one line of the old index
MergeLineOutput(line, op, ins) ==
    LET parts == ParseLine(line)
        new == IF op.hash = NoHash THEN <<>> ELSE FormatLine(op.path, <<op.hash>>)
    IN IF line = <<>> \/ parts = <<>> THEN [out |-> <<>>, ins |-> ins]
       ELSE IF StrLess(parts[1], op.path)
            THEN [out |-> FormatLine(parts[1], parts[2]), ins |-> ins]
       ELSE IF parts[1] = op.path
            THEN [out |-> new, ins |-> TRUE]
       ELSE IF ~ins /\ op.hash # NoHash
            THEN [out |-> new \o FormatLine(parts[1], parts[2]), ins |-> TRUE]
       ELSE [out |-> FormatLine(parts[1], parts[2]), ins |-> ins]

\* variant: Case 3 forgotten, an entry sorting last is never written
MergeTailOutput_NoCase3(op, ins) == <<>>

\* Case 3 of merge_index: the new entry is last alphabetically
MergeTailOutput(op, ins) ==
    IF ~ins /\ op.hash # NoHash THEN FormatLine(op.path, <<op.hash>>) ELSE <<>>

\* update_index / remove_from_index called: merge_index enters index_lock_file
StartUpdate(w, path, hash) ==
    /\ wpc[w] = "idle"
    /\ opsStarted < MaxOps
    /\ opsStarted' = opsStarted + 1
    /\ wpc' = [wpc EXCEPT ![w] = "acquire"]
    /\ wop' = [wop EXCEPT ![w] = [path |-> path, hash |-> hash]]
    /\ wtries' = [wtries EXCEPT ![w] = 0]
    /\ wres' = [wres EXCEPT ![w] = "running"]
    /\ UNCHANGED <<dirIndex, dirLock, inodes, wlock, wold, wpos, winserted,
                   rpc, rino, rpos, rdict, rseen, serial, serialPrev, readsStarted>>
    /\ UNCHANGED rvars

\* the exclusive creation of index.lock succeeds
AcquireLock(w) ==
    /\ wpc[w] = "acquire"
    /\ CanCreateExclusive
    /\ HasFreeInode
    /\ LET ino == FreeInode
       IN /\ dirLock' = ino
          /\ wlock' = [wlock EXCEPT ![w] = ino]
          /\ inodes' = [inodes EXCEPT ![ino] = <<>>]
    /\ wpc' = [wpc EXCEPT ![w] = "check"]
    /\ serialPrev' = [serialPrev EXCEPT ![w] = serial]
    /\ serial' = ApplyOp(serial, wop[w])
    /\ UNCHANGED <<dirIndex, wop, wold, wpos, winserted, wres, wtries,
                   rpc, rino, rpos, rdict, rseen, opsStarted, readsStarted>>
    /\ UNCHANGED rvars

\* FileExistsError within the wait budget: sleep and retry
WaitForLock(w) ==
    /\ wpc[w] = "acquire"
    /\ ~CanCreateExclusive
    /\ wtries[w] < MaxWaitTries
    /\ wtries' = [wtries EXCEPT ![w] = wtries[w] + 1]
    /\ UNCHANGED <<dirIndex, dirLock, inodes, wpc, wop, wlock, wold, wpos, winserted,
                   wres, rpc, rino, rpos, rdict, rseen, serial, serialPrev,
                   opsStarted, readsStarted>>
    /\ UNCHANGED rvars

\* variant: the writer whose budget is used up removes index.lock
LockTimeout_BreaksLock(w) ==
    /\ wpc[w] = "acquire"
    /\ ~CanCreateExclusive
    /\ wtries[w] >= MaxWaitTries
    /\ wpc' = [wpc EXCEPT ![w] = "idle"]
    /\ wres' = [wres EXCEPT ![w] = "timeout"]
    /\ dirLock' = 0
    /\ UNCHANGED <<dirIndex, inodes, wop, wlock, wold, wpos, winserted,
                   wtries, rpc, rino, rpos, rdict, rseen, serial, serialPrev,
                   opsStarted, readsStarted>>
    /\ UNCHANGED rvars

\* FileExistsError with the wait budget used up: TimeoutError
LockTimeout(w) ==
    /\ wpc[w] = "acquire"
    /\ ~CanCreateExclusive
    /\ wtries[w] >= MaxWaitTries
    /\ wpc' = [wpc EXCEPT ![w] = "idle"]
    /\ wres' = [wres EXCEPT ![w] = "timeout"]
    /\ UNCHANGED <<dirIndex, dirLock, inodes, wop, wlock, wold, wpos, winserted,
                   wtries, rpc, rino, rpos, rdict, rseen, serial, serialPrev,
                   opsStarted, readsStarted>>
    /\ UNCHANGED rvars

\* Case 1 (no index yet) or the opening of the old index of Case 2
CheckIndex(w) ==
    /\ wpc[w] = "check"
    /\ IF dirIndex = 0
       THEN /\ inodes' = [inodes EXCEPT ![WriteTarget(w)] =
                              @ \o MergeTailOutput(wop[w], FALSE)]
            /\ wpc' = [wpc EXCEPT ![w] = "commit"]
            /\ UNCHANGED <<wold, wpos, winserted>>
       ELSE /\ wold' = [wold EXCEPT ![w] = dirIndex]
            /\ wpos' = [wpos EXCEPT ![w] = 0]
            /\ winserted' = [winserted EXCEPT ![w] = FALSE]
            /\ wpc' = [wpc EXCEPT ![w] = "merge"]
            /\ UNCHANGED inodes
    /\ UNCHANGED <<dirIndex, dirLock, wop, wlock, wres, wtries, rpc, rino, rpos,
                   rdict, rseen, serial, serialPrev, opsStarted, readsStarted>>
    /\ UNCHANGED rvars

\* one iteration of `for line in old_index'
MergeLine(w) ==
    /\ wpc[w] = "merge"
    /\ LET lines == FileLines(inodes[wold[w]])
       IN /\ wpos[w] < Len(lines)
          /\ LET r == MergeLineOutput(lines[wpos[w] + 1], wop[w], winserted[w])
             IN /\ inodes' = [inodes EXCEPT ![WriteTarget(w)] = @ \o r.out]
                /\ winserted' = [winserted EXCEPT ![w] = r.ins]
    /\ wpos' = [wpos EXCEPT ![w] = wpos[w] + 1]
    /\ UNCHANGED <<dirIndex, dirLock, wpc, wop, wlock, wold, wres, wtries,
                   rpc, rino, rpos, rdict, rseen, serial, serialPrev,
                   opsStarted, readsStarted>>
    /\ UNCHANGED rvars

\* the old index is exhausted: Case 3, then old_index is closed
MergeEnd(w) ==
    /\ wpc[w] = "merge"
    /\ wpos[w] >= Len(FileLines(inodes[wold[w]]))
    /\ LET wo == [wold EXCEPT ![w] = 0]
           ino == [inodes EXCEPT ![WriteTarget(w)] =
                       @ \o MergeTailOutput(wop[w], winserted[w])]
       IN /\ wold' = wo
          /\ inodes' = Reclaim(ino, dirIndex, dirLock, wlock, wo, rino)
    /\ wpc' = [wpc EXCEPT ![w] = "commit"]
    /\ UNCHANGED <<dirIndex, dirLock, wop, wlock, wpos, winserted, wres, wtries,
                   rpc, rino, rpos, rdict, rseen, serial, serialPrev,
                   opsStarted, readsStarted>>
    /\ UNCHANGED rvars

\* normal exit of the with block: close, then os.replace(lock_path, index_path)
CommitIndex(w) ==
    /\ wpc[w] = "commit"
    /\ dirLock # 0
    /\ LET wl == [wlock EXCEPT ![w] = 0]
           newmap == DictOfLines(FileLines(inodes[dirLock]), {})
       IN /\ wlock' = wl
          /\ dirIndex' = dirLock
          /\ dirLock' = 0
          /\ inodes' = Reclaim(inodes, dirLock, 0, wl, wold, rino)
          /\ rseen' = [r \in Readers |->
                         IF r \in ReadersRunning THEN rseen[r] \cup {newmap} ELSE rseen[r]]
    /\ wpc' = [wpc EXCEPT ![w] = "idle"]
    /\ wres' = [wres EXCEPT ![w] = "ok"]
    /\ wpos' = [wpos EXCEPT ![w] = 0]
    /\ winserted' = [winserted EXCEPT ![w] = FALSE]
    /\ UNCHANGED <<wop, wold, wtries, rpc, rino, rpos, rdict,
                   serial, serialPrev, opsStarted, readsStarted>>
    /\ UNCHANGED rvars

\* variant: the exception leaves the with block without the unlink
FailUpdate_LockKept(w) ==
    /\ wpc[w] \in {"check", "merge"}
    /\ wlock' = [wlock EXCEPT ![w] = 0]
    /\ wold' = [wold EXCEPT ![w] = 0]
    /\ wpc' = [wpc EXCEPT ![w] = "idle"]
    /\ wres' = [wres EXCEPT ![w] = "error"]
    /\ serial' = serialPrev[w]
    /\ wpos' = [wpos EXCEPT ![w] = 0]
    /\ winserted' = [winserted EXCEPT ![w] = FALSE]
    /\ UNCHANGED <<dirIndex, dirLock, inodes, wop, wtries, rpc, rino, rpos, rdict,
                   rseen, serialPrev, opsStarted, readsStarted>>
    /\ UNCHANGED rvars

\* an exception inside the with block: close, unlink index.lock, re-raise
FailUpdate(w) ==
    /\ wpc[w] \in {"check", "merge"}
    /\ LET wl == [wlock EXCEPT ![w] = 0]
           wo == [wold EXCEPT ![w] = 0]
       IN /\ wlock' = wl
          /\ wold' = wo
          /\ dirLock' = 0
          /\ inodes' = Reclaim(inodes, dirIndex, 0, wl, wo, rino)
    /\ wpc' = [wpc EXCEPT ![w] = "idle"]
    /\ wres' = [wres EXCEPT ![w] = "error"]
    /\ serial' = serialPrev[w]
    /\ wpos' = [wpos EXCEPT ![w] = 0]
    /\ winserted' = [winserted EXCEPT ![w] = FALSE]
    /\ UNCHANGED <<dirIndex, wop, wtries, rpc, rino, rpos, rdict,
                   rseen, serialPrev, opsStarted, readsStarted>>
    /\ UNCHANGED rvars

(***************************************************************************)
(* read_index, which takes no lock.                                        *)
(***************************************************************************)
StartRead(r) ==
    /\ rpc[r] \in {"idle", "done"}
    /\ readsStarted < MaxReads
    /\ readsStarted' = readsStarted + 1
    /\ rpc' = [rpc EXCEPT ![r] = "exists"]
    /\ rdict' = [rdict EXCEPT ![r] = {}]
    /\ rpos' = [rpos EXCEPT ![r] = 0]
    /\ rseen' = [rseen EXCEPT ![r] = {IndexMapping}]
    /\ UNCHANGED <<dirIndex, dirLock, inodes, wpc, wop, wlock, wold, wpos, winserted,
                   wres, wtries, rino, serial, serialPrev, opsStarted>>
    /\ UNCHANGED rvars

\* index_path.exists()
ReadExists(r) ==
    /\ rpc[r] = "exists"
    /\ rpc' = [rpc EXCEPT ![r] = IF dirIndex = 0 THEN "done" ELSE "open"]
    /\ UNCHANGED <<dirIndex, dirLock, inodes, wpc, wop, wlock, wold, wpos, winserted,
                   wres, wtries, rino, rpos, rdict, rseen, serial, serialPrev,
                   opsStarted, readsStarted>>
    /\ UNCHANGED rvars

\* open(index_path, 'r')
ReadOpen(r) ==
    /\ rpc[r] = "open"
    /\ dirIndex # 0
    /\ rino' = [rino EXCEPT ![r] = dirIndex]
    /\ rpc' = [rpc EXCEPT ![r] = "read"]
    /\ UNCHANGED <<dirIndex, dirLock, inodes, wpc, wop, wlock, wold, wpos, winserted,
                   wres, wtries, rpos, rdict, rseen, serial, serialPrev,
                   opsStarted, readsStarted>>
    /\ UNCHANGED rvars

\* one iteration of `for line in index_file'
ReadLine(r) ==
    /\ rpc[r] = "read"
    /\ LET lines == FileLines(inodes[rino[r]])
       IN /\ rpos[r] < Len(lines)
          /\ rdict' = [rdict EXCEPT ![r] = DictOfLines(<<lines[rpos[r] + 1]>>, @)]
    /\ rpos' = [rpos EXCEPT ![r] = rpos[r] + 1]
    /\ UNCHANGED <<dirIndex, dirLock, inodes, wpc, wop, wlock, wold, wpos, winserted,
                   wres, wtries, rpc, rino, rseen, serial, serialPrev,
                   opsStarted, readsStarted>>
    /\ UNCHANGED rvars

\* end of file: the handle is closed and index_dict returned
ReadEnd(r) ==
    /\ rpc[r] = "read"
    /\ rpos[r] >= Len(FileLines(inodes[rino[r]]))
    /\ LET ri == [rino EXCEPT ![r] = 0]
       IN /\ rino' = ri
          /\ inodes' = Reclaim(inodes, dirIndex, dirLock, wlock, wold, ri)
    /\ rpc' = [rpc EXCEPT ![r] = "done"]
    /\ UNCHANGED <<dirIndex, dirLock, wpc, wop, wlock, wold, wpos, winserted,
                   wres, wtries, rpos, rdict, rseen, serial, serialPrev,
                   opsStarted, readsStarted>>
    /\ UNCHANGED rvars

IndexInit ==
    /\ dirIndex = 0
    /\ dirLock = 0
    /\ inodes = [i \in 1..NumInodes |-> <<>>]
    /\ wpc = [w \in Writers |-> "idle"]
    /\ wop = [w \in Writers |-> [path |-> <<"a">>, hash |-> NoHash]]
    /\ wlock = [w \in Writers |-> 0]
    /\ wold = [w \in Writers |-> 0]
    /\ wpos = [w \in Writers |-> 0]
    /\ winserted = [w \in Writers |-> FALSE]
    /\ wres = [w \in Writers |-> "none"]
    /\ wtries = [w \in Writers |-> 0]
    /\ rpc = [r \in Readers |-> "idle"]
    /\ rino = [r \in Readers |-> 0]
    /\ rpos = [r \in Readers |-> 0]
    /\ rdict = [r \in Readers |-> {}]
    /\ rseen = [r \in Readers |-> {}]
    /\ serial = {}
    /\ serialPrev = [w \in Writers |-> {}]
    /\ opsStarted = 0
    /\ readsStarted = 0

IndexNext ==
    \/ \E w \in Writers, p \in IndexPaths, h \in IndexHashes \cup {NoHash} : StartUpdate(w, p, h)
    \/ \E w \in Writers : AcquireLock(w)
    \/ \E w \in Writers : WaitForLock(w)
    \/ \E w \in Writers : LockTimeout(w)
    \/ \E w \in Writers : CheckIndex(w)
    \/ \E w \in Writers : MergeLine(w)
    \/ \E w \in Writers : MergeEnd(w)
    \/ \E w \in Writers : CommitIndex(w)
    \/ \E w \in Writers : FailUpdate(w)
    \/ \E r \in Readers : StartRead(r)
    \/ \E r \in Readers : ReadExists(r)
    \/ \E r \in Readers : ReadOpen(r)
    \/ \E r \in Readers : ReadLine(r)
    \/ \E r \in Readers : ReadEnd(r)


(***************************************************************************)
(* Objects: hashes, tree records and trees (libcaf objects, opaque store). *)
(* A hash is modelled by the canonical form of the object it names, so     *)
(* equal hashes mean equal objects and no two objects collide.             *)
(***************************************************************************)
\* Python's None where a hash is expected
NoneHash == [t |-> "none", c |-> 0, r |-> {}, p |-> <<>>]

\* hash of a blob with content c
BlobHash(c) == [t |-> "blob", c |-> c, r |-> {}, p |-> <<>>]

\* hash_object(Tree(records)): independent of insertion order
TreeHash(records) == [t |-> "tree", c |-> 0, r |-> records, p |-> <<>>]

\* hash_object(Commit(tree_hash, author, message, timestamp, parent))
CommitHash(tree, author, message, time, parent) ==
    [t |-> "commit", c |-> 0, r |-> {}, p |-> <<tree, author, message, time, parent>>]

\* TreeRecord(type, hash, name)
TreeRecord(type, hash, name) == [name |-> name, type |-> type, hash |-> hash]

NoRecord == TreeRecord("none", NoneHash, "")

\* all names of tree entries, in the order a Tree's records are iterated
NameOrder == <<"a", "b">>

\* the names of a set of tree records, ordered
SortedNames(records) ==
    SelectSeq(NameOrder, LAMBDA n : \E rec \in records : rec.name = n)

\* records[name]
RecordOf(records, name) == CHOOSE rec \in records : rec.name = name

HasName(records, name) == \E rec \in records : rec.name = name

\* load_tree(objects_dir, hash): the records of a stored tree
CanLoadTree(store, h) == h.t = "tree" /\ h \in store

LoadTree(h) == h.r

(***************************************************************************)
(* diff_trees (diff.py).  Diff objects live in an arena; a handle is the   *)
(* identity of a Python Diff object, 0 is None, 1 is top_level_diff.       *)
(***************************************************************************)
DiffNode(kind, record, newrec, parent, children, partner) ==
    [kind |-> kind, record |-> record, newrec |-> newrec, parent |-> parent,
     children |-> children, partner |-> partner]

\* dictionary assignment d[k] = v and del d[k]
DictPut(d, k, v) == [x \in DOMAIN d \cup {k} |-> IF x = k THEN v ELSE d[x]]
DictDel(d, k) == [x \in DOMAIN d \ {k} |-> d[x]]

EmptyDict == [x \in {} |-> 0]

\* a new Diff object is constructed
AddNode(S, node) == [S EXCEPT !.nodes = Append(@, node)]

LastHandle(S) == Len(S.nodes)

\* variant: the list keeps the old object
ReplaceIn_Kept(children, old, new) == children

\* [x if x is not old else new for x in children]
ReplaceIn(children, old, new) ==
    [i \in 1..Len(children) |-> IF children[i] = old THEN new ELSE children[i]]

\* for child in children: child.parent = parent
Reparent(nodes, children, parent) ==
    [i \in 1..Len(nodes) |->
        IF \E j \in 1..Len(children) : children[j] = i
        THEN [nodes[i] EXCEPT !.parent = parent] ELSE nodes[i]]

\* _expand_diff: the records of an added or removed tree, recursively
RECURSIVE ExpandDiff(_, _, _, _, _)
ExpandDiff(S, store, diff, records, names) ==
    IF names = <<>> THEN S
    ELSE
      LET rec == RecordOf(records, Head(names))
          added == S.nodes[diff].kind = "Added"
          S1 == AddNode(S, DiffNode(IF added THEN "Added" ELSE "Removed",
                                    rec, NoRecord, diff, <<>>, 0))
          child == LastHandle(S1)
          S2 == [S1 EXCEPT !.pa = IF added THEN DictPut(@, rec.hash, child) ELSE @,
                           !.pr = IF added THEN @ ELSE DictPut(@, rec.hash, child),
                           !.nodes[diff].children = Append(@, child)]
          S3 == IF rec.type = "tree" /\ CanLoadTree(store, rec.hash)
                THEN ExpandDiff(S2, store, child, LoadTree(rec.hash),
                                SortedNames(LoadTree(rec.hash)))
                ELSE S2
      IN ExpandDiff(S3, store, diff, records, Tail(names))

\* _promote_parents_to_modified: Added/Removed ancestors become Modified
RECURSIVE PromoteFrom(_, _)
PromoteFrom(S, curr) ==
    IF curr = 0 \/ S.nodes[curr].parent = 0 THEN S
    ELSE IF S.nodes[curr].kind \in {"Added", "Removed"}
    THEN LET old == S.nodes[curr]
             S1 == AddNode(S, DiffNode("Modified", old.record, NoRecord,
                                       old.parent, old.children, 0))
             new == LastHandle(S1)
             S2 == [S1 EXCEPT !.nodes[old.parent].children = ReplaceIn(@, curr, new)]
             S3 == [S2 EXCEPT !.nodes = Reparent(@, old.children, new)]
         IN PromoteFrom(S3, S3.nodes[new].parent)
    ELSE PromoteFrom(S, S.nodes[curr].parent)

PromoteParentsToModified(S, diff) == PromoteFrom(S, S.nodes[diff].parent)

\* a name of the old tree that the new tree lacks: moved away or removed
OldOnly(S, store, parent, rec) ==
    IF rec.hash \in DOMAIN S.pa
    THEN LET added == S.pa[rec.hash]
             S1 == [S EXCEPT !.pa = DictDel(@, rec.hash)]
             S2 == AddNode(S1, DiffNode("MovedTo", rec, NoRecord, parent, <<>>, 0))
             local == LastHandle(S2)
             S3 == AddNode(S2, DiffNode("MovedFrom", S2.nodes[added].record, NoRecord,
                                        S2.nodes[added].parent, <<>>, local))
             mf == LastHandle(S3)
             S4 == [S3 EXCEPT !.nodes[local].partner = mf,
                              !.nodes[S3.nodes[added].parent].children =
                                   ReplaceIn(@, added, mf)]
             S5 == PromoteParentsToModified(S4, mf)
             S6 == [S5 EXCEPT !.nodes[mf].children = S5.nodes[added].children]
             S7 == [S6 EXCEPT !.nodes = Reparent(@, S6.nodes[mf].children, mf)]
         IN [S7 EXCEPT !.nodes[parent].children = Append(@, local)]
    ELSE LET S1 == AddNode(S, DiffNode("Removed", rec, NoRecord, parent, <<>>, 0))
             local == LastHandle(S1)
             S2 == [S1 EXCEPT !.pr = DictPut(@, rec.hash, local)]
             S3 == IF rec.type = "tree" /\ CanLoadTree(store, rec.hash)
                   THEN ExpandDiff(S2, store, local, LoadTree(rec.hash),
                                   SortedNames(LoadTree(rec.hash)))
                   ELSE S2
         IN [S3 EXCEPT !.nodes[parent].children = Append(@, local)]

\* variant: the names only the new tree has are passed over
NewOnly_Skipped(S, store, parent, rec) == S

\* a name of the new tree that the old tree lacks: moved here or added
NewOnly(S, store, parent, rec) ==
    IF rec.hash \in DOMAIN S.pr
    THEN LET removed == S.pr[rec.hash]
             S1 == [S EXCEPT !.pr = DictDel(@, rec.hash)]
             S2 == AddNode(S1, DiffNode("MovedFrom", rec, NoRecord, parent, <<>>, 0))
             local == LastHandle(S2)
             S3 == AddNode(S2, DiffNode("MovedTo", S2.nodes[removed].record, NoRecord,
                                        S2.nodes[removed].parent, <<>>, local))
             mt == LastHandle(S3)
             S4 == [S3 EXCEPT !.nodes[local].partner = mt,
                              !.nodes[S3.nodes[removed].parent].children =
                                   ReplaceIn(@, removed, mt)]
             S5 == PromoteParentsToModified(S4, mt)
             S6 == [S5 EXCEPT !.nodes[mt].children = S5.nodes[removed].children]
             S7 == [S6 EXCEPT !.nodes = Reparent(@, S6.nodes[mt].children, mt)]
         IN [S7 EXCEPT !.nodes[parent].children = Append(@, local)]
    ELSE LET S1 == AddNode(S, DiffNode("Added", rec, NoRecord, parent, <<>>, 0))
             local == LastHandle(S1)
             S2 == [S1 EXCEPT !.pa = DictPut(@, rec.hash, local)]
             S3 == IF rec.type = "tree" /\ CanLoadTree(store, rec.hash)
                   THEN ExpandDiff(S2, store, local, LoadTree(rec.hash),
                                   SortedNames(LoadTree(rec.hash)))
                   ELSE S2
         IN [S3 EXCEPT !.nodes[parent].children = Append(@, local)]

\* `for name, record1 in records1.items()'
RECURSIVE DiffOldLoop(_, _, _, _, _, _)
DiffOldLoop(S, store, parent, records1, records2, names) ==
    IF names = <<>> \/ S.err THEN S
    ELSE
      LET rec1 == RecordOf(records1, Head(names))
          S1 == IF ~HasName(records2, rec1.name)
                THEN OldOnly(S, store, parent, rec1)
                ELSE LET rec2 == RecordOf(records2, rec1.name)
                     IN IF rec1.hash = rec2.hash THEN S
                        ELSE IF rec1.type = "tree" /\ rec2.type = "tree"
                        THEN IF CanLoadTree(store, rec1.hash) /\ CanLoadTree(store, rec2.hash)
                             THEN LET T1 == AddNode(S, DiffNode("Modified", rec1, rec2,
                                                                parent, <<>>, 0))
                                      sub == LastHandle(T1)
                                  IN [T1 EXCEPT
                                        !.stack = Append(@, <<LoadTree(rec1.hash),
                                                              LoadTree(rec2.hash), sub>>),
                                        !.nodes[parent].children = Append(@, sub)]
                             ELSE [S EXCEPT !.err = TRUE]
                        ELSE LET T1 == AddNode(S, DiffNode("Modified", rec1, rec2,
                                                           parent, <<>>, 0))
                             IN [T1 EXCEPT !.nodes[parent].children =
                                               Append(@, LastHandle(T1))]
      IN DiffOldLoop(S1, store, parent, records1, records2, Tail(names))

\* `for name, record2 in records2.items()'
RECURSIVE DiffNewLoop(_, _, _, _, _, _)
DiffNewLoop(S, store, parent, records1, records2, names) ==
    IF names = <<>> \/ S.err THEN S
    ELSE
      LET rec2 == RecordOf(records2, Head(names))
          S1 == IF ~HasName(records1, rec2.name)
                THEN NewOnly(S, store, parent, rec2)
                ELSE S
      IN DiffNewLoop(S1, store, parent, records1, records2, Tail(names))

\* `while stack'
RECURSIVE DiffStackLoop(_, _)
DiffStackLoop(S, store) ==
    IF S.stack = <<>> \/ S.err THEN S
    ELSE
      LET top == S.stack[Len(S.stack)]
          S0 == [S EXCEPT !.stack = SubSeq(@, 1, Len(@) - 1)]
          S1 == DiffOldLoop(S0, store, top[3], top[1], top[2], SortedNames(top[1]))
          S2 == DiffNewLoop(S1, store, top[3], top[1], top[2], SortedNames(top[2]))
      IN DiffStackLoop(S2, store)

\* diff_trees(tree1, tree2, load_tree1, load_tree2): the arena, node 1 being
\* top_level_diff; err is DiffError
diff_trees(store, records1, records2) ==
    DiffStackLoop([nodes |-> <<DiffNode("Top", TreeRecord("tree", NoneHash, ""),
                                        NoRecord, 0, <<>>, 0)>>,
                   pa |-> EmptyDict, pr |-> EmptyDict,
                   stack |-> << <<records1, records2, 1>> >>,
                   err |-> FALSE], store)

(***************************************************************************)
(* The working directory: a map from paths to nodes.  The metadata         *)
(* directory is not part of it.                                            *)
(***************************************************************************)
\* names of the entries of the working directory itself / of its subdirectories
TopNames == {"a", "b"}
SubNames == {"a"}
\* the names available at each depth; its length is the depth of the deepest path
LevelNames == <<TopNames, SubNames>>
\* number of distinct file contents
NumContents == 2

Contents == 1..NumContents

NamesAt(d) == IF d \in DOMAIN LevelNames THEN LevelNames[d] ELSE {}

RECURSIVE PathsOfLen(_)
PathsOfLen(d) ==
    IF d = 1 THEN {<<n>> : n \in TopNames}
    ELSE {Append(q, n) : q \in PathsOfLen(d - 1), n \in NamesAt(d)}

Paths == UNION {PathsOfLen(d) : d \in 1..Len(LevelNames)}

ParentPath(q) == SubSeq(q, 1, Len(q) - 1)

IsPrefix(q, r) == Len(q) <= Len(r) /\ SubSeq(r, 1, Len(q)) = q

NoNode == [k |-> "none", h |-> NoneHash]
DirNode == [k |-> "dir", h |-> NoneHash]
FileNode(h) == [k |-> "file", h |-> h]

\* the node at a path; the working directory itself is <<>>
NodeAt(fs, q) ==
    IF q = <<>> THEN DirNode ELSE IF q \in DOMAIN fs THEN fs[q] ELSE NoNode

\* Path.exists(), is_file(), is_dir()
Exists(fs, q) == NodeAt(fs, q).k # "none"
IsFile(fs, q) == NodeAt(fs, q).k = "file"
IsDir(fs, q) == NodeAt(fs, q).k = "dir"

\* every entry lies in a directory
WellFormedFS(fs) ==
    \A q \in DOMAIN fs : fs[q].k # "none" => IsDir(fs, ParentPath(q))

\* what reading the bytes of a directory hashes to: no object has this hash
UnreadableHash == [t |-> "unreadable", c |-> 0, r |-> {}, p |-> <<>>]

\* hash_file(path): the hash of the file's content
hash_file(fs, q) == IF IsFile(fs, q) THEN NodeAt(fs, q).h ELSE UnreadableHash

\* hash of the bytes open_content_for_reading yields for a stored object
ContentOf(h) == IF h.t = "tree" THEN [t |-> "blob", c |-> 0, r |-> h.r, p |-> <<>>] ELSE h

\* results of file system calls: the new tree and whether OSError was raised
FsOk(fs) == [fs |-> fs, err |-> "ok"]
FsErr(fs) == [fs |-> fs, err |-> "OSError"]

\* path.unlink()
Unlink(fs, q) ==
    IF IsFile(fs, q) THEN FsOk([fs EXCEPT ![q] = NoNode]) ELSE FsErr(fs)

\* path.mkdir(exist_ok=True)
Mkdir(fs, q) ==
    IF IsDir(fs, q) THEN FsOk(fs)
    ELSE IF IsFile(fs, q) \/ ~IsDir(fs, ParentPath(q)) \/ q \notin DOMAIN fs THEN FsErr(fs)
    ELSE FsOk([fs EXCEPT ![q] = DirNode])

\* path.mkdir(parents=True, exist_ok=True)
RECURSIVE MkdirParents(_, _)
MkdirParents(fs, q) ==
    IF q = <<>> \/ IsDir(fs, q) THEN FsOk(fs)
    ELSE IF IsFile(fs, q) THEN FsErr(fs)
    ELSE LET r == MkdirParents(fs, ParentPath(q))
         IN IF r.err # "ok" THEN r ELSE Mkdir(r.fs, q)

\* with path.open("wb") as dst: dst.write(src.read())
WriteFile(fs, q, h) ==
    IF IsDir(fs, q) \/ ~IsDir(fs, ParentPath(q)) \/ q \notin DOMAIN fs THEN FsErr(fs)
    ELSE FsOk([fs EXCEPT ![q] = FileNode(h)])

\* delete_tree(path)
delete_tree(fs, q) ==
    IF ~Exists(fs, q) THEN FsOk(fs)
    ELSE IF IsFile(fs, q) THEN FsErr(fs)
    ELSE FsOk([r \in DOMAIN fs |-> IF IsPrefix(q, r) THEN NoNode ELSE fs[r]])

\* repo_dir.name, the name of the metadata directory
RepoDirName == ".caf"

\* item.name of the entries current_path.iterdir() gives
ListDir(fs, q) == {n \in NamesAt(Len(q) + 1) \cup {RepoDirName} : Exists(fs, Append(q, n))}

\* the Tree save_dir gives a directory; an entry named as the metadata
\* directory is passed over
RECURSIVE BuildTree(_, _)
BuildTree(fs, q) ==
    LET names == {n \in ListDir(fs, q) : n # RepoDirName}
    IN {IF IsFile(fs, Append(q, n))
        THEN TreeRecord("blob", fs[Append(q, n)].h, n)
        ELSE TreeRecord("tree", TreeHash(BuildTree(fs, Append(q, n))), n) : n \in names}

\* hash of the tree of the whole working directory
WorkTreeHash(fs) == TreeHash(BuildTree(fs, <<>>))

\* the objects save_dir writes: every blob and every tree of the directory
RECURSIVE TreeObjects(_)
TreeObjects(records) ==
    {TreeHash(records)} \cup
    UNION {IF rec.type = "tree" THEN TreeObjects(rec.hash.r) ELSE {rec.hash} : rec \in records}

(***************************************************************************)
(* checkout.py                                                             *)
(***************************************************************************)
\* validate_new_tree: no untracked file is overwritten by a new tree
RECURSIVE ValidateNewTreeLoop(_, _, _, _, _)
ValidateNewTreeLoop(fs, store, records, q, names) ==
    IF names = <<>> THEN "ok"
    ELSE LET rec == RecordOf(records, Head(names))
             child == Append(q, rec.name)
             r == IF rec.type = "tree"
                  THEN IF CanLoadTree(store, rec.hash)
                       THEN ValidateNewTreeLoop(fs, store, LoadTree(rec.hash), child,
                                                SortedNames(LoadTree(rec.hash)))
                       ELSE "ObjectMissing"
                  ELSE IF Exists(fs, child) /\ hash_file(fs, child) # rec.hash
                       THEN "CheckoutError" ELSE "ok"
         IN IF r # "ok" THEN r
            ELSE ValidateNewTreeLoop(fs, store, records, q, Tail(names))

\* no look at the files already below the path
validate_new_tree_Unchecked(fs, store, tree_hash, q) == "ok"

validate_new_tree(fs, store, tree_hash, q) ==
    IF CanLoadTree(store, tree_hash)
    THEN ValidateNewTreeLoop(fs, store, LoadTree(tree_hash), q, SortedNames(LoadTree(tree_hash)))
    ELSE "ObjectMissing"

\* validate_removed_tree: no dirty file is lost with a removed tree
RECURSIVE ValidateRemovedTreeLoop(_, _, _, _, _)
ValidateRemovedTreeLoop(fs, store, records, q, names) ==
    IF names = <<>> THEN "ok"
    ELSE LET rec == RecordOf(records, Head(names))
             child == Append(q, rec.name)
             r == IF rec.type = "tree"
                  THEN IF ~Exists(fs, child) THEN "ok"
                       ELSE IF CanLoadTree(store, rec.hash)
                       THEN ValidateRemovedTreeLoop(fs, store, LoadTree(rec.hash), child,
                                                    SortedNames(LoadTree(rec.hash)))
                       ELSE "ObjectMissing"
                  ELSE IF Exists(fs, child) /\ hash_file(fs, child) # rec.hash
                       THEN "CheckoutError" ELSE "ok"
         IN IF r # "ok" THEN r
            ELSE ValidateRemovedTreeLoop(fs, store, records, q, Tail(names))

\* no look at the files of the directory to remove
validate_removed_tree_Unchecked(fs, store, tree_hash, q) == "ok"

validate_removed_tree(fs, store, tree_hash, q) ==
    IF ~Exists(fs, q) THEN "ok"
    ELSE IF CanLoadTree(store, tree_hash)
    THEN ValidateRemovedTreeLoop(fs, store, LoadTree(tree_hash), q,
                                 SortedNames(LoadTree(tree_hash)))
    ELSE "ObjectMissing"

\* the checks validate_clean makes for one blob entry of the diff
ValidateBlob(fs, d, q) ==
    IF d.kind \in {"Modified", "Removed", "MovedTo"}
       /\ (~Exists(fs, q) \/ hash_file(fs, q) # d.record.hash)
    THEN "CheckoutError"
    ELSE IF d.kind \in {"Added", "MovedFrom"}
            /\ Exists(fs, q) /\ hash_file(fs, q) # d.record.hash
    THEN "CheckoutError"
    ELSE "ok"

\* validate_clean(repo, diffs, current_path)
RECURSIVE validate_clean(_, _, _, _, _)
validate_clean(fs, store, D, diffs, cur) ==
    IF diffs = <<>> THEN "ok"
    ELSE LET d == D.nodes[Head(diffs)]
             q == Append(cur, d.record.name)
             r == IF d.record.type = "tree"
                  THEN IF d.kind \in {"Added", "MovedFrom"}
                       THEN validate_new_tree(fs, store, d.record.hash, q)
                       ELSE IF d.kind \in {"Removed", "MovedTo"}
                       THEN validate_removed_tree(fs, store, d.record.hash, q)
                       ELSE validate_clean(fs, store, D, d.children, q)
                  ELSE ValidateBlob(fs, d, q)
         IN IF r # "ok" THEN r
            ELSE validate_clean(fs, store, D, Tail(diffs), cur)

\* create_tree(repo, tree_hash, path)
RECURSIVE CreateTreeLoop(_, _, _, _, _)
CreateTreeLoop(fs, store, records, q, names) ==
    IF names = <<>> THEN FsOk(fs)
    ELSE LET rec == RecordOf(records, Head(names))
             child == Append(q, rec.name)
             r == IF rec.type = "tree"
                  THEN LET m == Mkdir(fs, child)
                       IN IF m.err # "ok" THEN m
                          ELSE IF ~CanLoadTree(store, rec.hash) THEN FsErr(m.fs)
                          ELSE CreateTreeLoop(m.fs, store, LoadTree(rec.hash), child,
                                              SortedNames(LoadTree(rec.hash)))
                  ELSE IF rec.hash \notin store THEN FsErr(fs)
                       ELSE WriteFile(fs, child, ContentOf(rec.hash))
         IN IF r.err # "ok" THEN r
            ELSE CreateTreeLoop(r.fs, store, records, q, Tail(names))

create_tree(fs, store, tree_hash, q) ==
    IF ~CanLoadTree(store, tree_hash) THEN FsErr(fs)
    ELSE CreateTreeLoop(fs, store, LoadTree(tree_hash), q, SortedNames(LoadTree(tree_hash)))

\* the blob branch of apply_checkout: the file is written from the store
ApplyBlob(fs, store, d, q) ==
    LET target == IF d.kind = "Modified" THEN d.newrec.hash ELSE d.record.hash
    IN IF target = NoneHash THEN FsOk(fs)
       ELSE LET m == MkdirParents(fs, ParentPath(q))
            IN IF m.err # "ok" THEN m
               ELSE IF target \notin store THEN FsErr(m.fs)
               ELSE WriteFile(m.fs, q, ContentOf(target))

\* apply_checkout(repo, diffs, current_path)
RECURSIVE apply_checkout(_, _, _, _, _)
apply_checkout(fs, store, D, diffs, cur) ==
    IF diffs = <<>> THEN FsOk(fs)
    ELSE LET d == D.nodes[Head(diffs)]
             q == Append(cur, d.record.name)
             r == IF d.kind \in {"Removed", "MovedTo"}
                  THEN IF d.record.type = "tree" THEN delete_tree(fs, q)
                       ELSE IF Exists(fs, q) THEN Unlink(fs, q) ELSE FsOk(fs)
                  ELSE IF d.record.type = "tree"
                  THEN LET m == Mkdir(fs, q)
                       IN IF m.err # "ok" THEN m
                          ELSE IF d.kind = "Added"
                          THEN create_tree(m.fs, store, d.record.hash, q)
                          ELSE apply_checkout(m.fs, store, D, d.children, q)
                  ELSE ApplyBlob(fs, store, d, q)
         IN IF r.err # "ok" THEN r
            ELSE apply_checkout(r.fs, store, D, Tail(diffs), cur)

(***************************************************************************)
(* References (ref.py) and their resolution (Repository.resolve_ref).      *)
(***************************************************************************)
BranchNames == {"main", "dev"}
DEFAULT_BRANCH == "main"

\* branch_ref(branch): the path heads/<branch> under refs
RefPath == [main |-> "heads/main", dev |-> "heads/dev"]

TagNames == {"v1"}

\* tag_ref(tag): the path tags/<tag> under refs
TagPath == [v1 |-> "tags/v1"]

\* the ref files there can be under refs
RefNames == {RefPath[b] : b \in BranchNames} \cup {TagPath[t] : t \in TagNames}

\* what a ref file holds; NoRef is the empty file, read as None
NoRef == [t |-> "none", name |-> "", hash |-> NoneHash]
HashRef(h) == [t |-> "hash", name |-> "", hash |-> h]
SymRef(n) == [t |-> "sym", name |-> n, hash |-> NoneHash]
\* the ref file does not exist
AbsentRef == [t |-> "absent", name |-> "", hash |-> NoneHash]

branch_ref(b) == SymRef(RefPath[b])

IsBranchRef(ref) == ref.t = "sym" /\ \E b \in BranchNames : ref.name = RefPath[b]

\* the ref file a symbolic name designates under refs
RefFile(hs, name) ==
    IF name \in DOMAIN hs THEN hs[name] ELSE AbsentRef

\* a resolution outcome: the HashRef or None, or the error raised
Resolved(ref) == [err |-> "ok", ref |-> ref]
ResolveFailed(e) == [err |-> e, ref |-> NoRef]

\* a ref file whose content read_ref rejects
InvalidRef == [t |-> "invalid", name |-> "", hash |-> NoneHash]

\* the characters of the strings references are named by
CharsOf(s) ==
    CASE s = "HEAD" -> <<"H", "E", "A", "D">>
      [] s = "head" -> <<"h", "e", "a", "d">>
      [] s = "Head" -> <<"H", "e", "a", "d">>
      [] s = "main" -> <<"m", "a", "i", "n">>
      [] s = "dev" -> <<"d", "e", "v">>
      [] s = "v1" -> <<"v", "1">>
      [] s = "heads/main" -> <<"h", "e", "a", "d", "s", "/", "m", "a", "i", "n">>
      [] s = "heads/dev" -> <<"h", "e", "a", "d", "s", "/", "d", "e", "v">>
      [] s = "tags/v1" -> <<"t", "a", "g", "s", "/", "v", "1">>
      [] s = "nope" -> <<"n", "o", "p", "e">>
      [] s = "a1" -> <<"a", "1">>
      [] s = "A1" -> <<"A", "1">>
      [] s = "a" -> <<"a">>
      [] s = "a1a" -> <<"a", "1", "a">>
      [] s = "ag" -> <<"a", "g">>
      [] s = "" -> <<>>

\* str.upper() on one character
UpperChar(c) ==
    CASE c = "a" -> "A" [] c = "d" -> "D" [] c = "e" -> "E" [] c = "g" -> "G"
      [] c = "h" -> "H" [] c = "i" -> "I" [] c = "m" -> "M" [] c = "n" -> "N"
      [] c = "o" -> "O" [] c = "p" -> "P" [] c = "s" -> "S" [] c = "t" -> "T"
      [] c = "v" -> "V" [] OTHER -> c

\* ref.upper() == 'HEAD'
IsHeadName(s) ==
    [i \in DOMAIN CharsOf(s) |-> UpperChar(CharsOf(s)[i])] = CharsOf("HEAD")

\* the length of a hash in characters, scaled down from the digest length
HASH_LENGTH == 2
HASH_CHARSET == {"0", "1", "a", "b", "c", "d", "e", "f"}

\* len(ref) == HASH_LENGTH and all(c in HASH_CHARSET for c in ref)
IsHashText(s) ==
    /\ Len(CharsOf(s)) = HASH_LENGTH
    /\ \A i \in DOMAIN CharsOf(s) : CharsOf(s)[i] \in HASH_CHARSET

\* the hash a string of HASH_LENGTH hash characters names
TextHash(s) == [t |-> "text", c |-> 0, r |-> {}, p |-> CharsOf(s)]

\* the number of frames after which a chain of symbolic references can only
\* be going round a cycle (the interpreter's recursion limit)
MaxRefChain == 5

\* resolve_ref(ref) for a Ref or None
RECURSIVE ResolveChain(_, _, _, _)
ResolveChain(head, hs, ref, fuel) ==
    IF ref.t = "hash" THEN Resolved(ref)
    ELSE IF ref.t = "none" THEN Resolved(NoRef)
    ELSE IF fuel = 0 THEN ResolveFailed("RecursionError")
    ELSE IF IsHeadName(ref.name)
         THEN IF head.t = "absent" THEN ResolveFailed("RepositoryError")
              ELSE IF head.t = "invalid" THEN ResolveFailed("ValueError")
              ELSE ResolveChain(head, hs, head, fuel - 1)
    ELSE IF RefFile(hs, ref.name).t = "absent" THEN ResolveFailed("FileNotFoundError")
    ELSE IF RefFile(hs, ref.name).t = "invalid" THEN ResolveFailed("ValueError")
    ELSE ResolveChain(head, hs, RefFile(hs, ref.name), fuel - 1)

resolve_ref(head, hs, ref) == ResolveChain(head, hs, ref, MaxRefChain)

\* the last component of the path of a ref file
RefFileName(n) ==
    CASE n = "heads/main" -> "main" [] n = "heads/dev" -> "dev" [] n = "tags/v1" -> "v1"

\* Repository.refs(): the file names of all ref files, without their directory
RefFileNames(hs) == {RefFileName(n) : n \in {x \in DOMAIN hs : hs[x].t # "absent"}}

\* resolve_ref(ref) for a bare string
resolve_str(head, hs, s) ==
    IF IsHeadName(s) \/ s \in RefFileNames(hs) THEN resolve_ref(head, hs, SymRef(s))
    ELSE IF IsHashText(s) THEN Resolved(HashRef(TextHash(s)))
    ELSE ResolveFailed("RefError")

\* head_commit(): resolve_ref(head_ref())
head_commit(head, hs) ==
    IF head.t = "absent" THEN ResolveFailed("RepositoryError")
    ELSE resolve_ref(head, hs, head)

(***************************************************************************)
(* Commits.                                                                *)
(***************************************************************************)
\* authors and messages passed to commit_working_dir
Authors == {"", "ann"}
Messages == {"", "msg"}
\* commits the object store may hold
MaxCommits == 2

CommitsOf(store) == {h \in store : h.t = "commit"}

\* load_commit(...).tree_hash and .parent
CommitTree(c) == c.p[1]
CommitParent(c) == c.p[5]

\* commit_working_dir without the update of the branch ref
CommitResult_BranchNotAdvanced(fs, store, head, hs, author, message) ==
    IF author = "" \/ message = "" \/ head.t = "absent" \/ head_commit(head, hs).err # "ok"
    THEN [res |-> "ValueError", ret |-> NoneHash, objects |-> store, refs |-> hs]
    ELSE LET records == BuildTree(fs, <<>>)
             commit == CommitHash(TreeHash(records), author, message, 0,
                                  head_commit(head, hs).ref.hash)
         IN [res |-> "ok", ret |-> commit,
             objects |-> store \cup TreeObjects(records) \cup {commit}, refs |-> hs]

\* the value returned by commit_working_dir and the state it leaves
CommitResult(fs, store, head, hs, author, message) ==
    LET unchanged(e) == [res |-> e, ret |-> NoneHash, objects |-> store, refs |-> hs]
    IN IF author = "" \/ message = "" THEN unchanged("ValueError")
       ELSE IF head.t = "absent" THEN unchanged("RepositoryError")
       ELSE LET parent == head_commit(head, hs)
            IN IF parent.err # "ok" THEN unchanged(parent.err)
               ELSE LET records == BuildTree(fs, <<>>)
                        tree == TreeHash(records)
                        commit == CommitHash(tree, author, message, 0, parent.ref.hash)
                        saved == store \cup TreeObjects(records) \cup {commit}
                    IN IF head.t = "sym"
                       THEN IF RefFile(hs, head.name).t = "absent"
                            THEN [res |-> "RepositoryError", ret |-> NoneHash,
                                  objects |-> saved, refs |-> hs]
                            ELSE [res |-> "ok", ret |-> commit, objects |-> saved,
                                  refs |-> [hs EXCEPT ![head.name] = HashRef(commit)]]
                       ELSE [res |-> "ok", ret |-> commit, objects |-> saved, refs |-> hs]

(***************************************************************************)
(* checkout (checkout.py) and Repository.checkout / Repository.diff.       *)
(***************************************************************************)
\* Repository.diff(commit1, commit2): the diff of the two commits' trees,
\* empty when the root hashes are equal
RepoDiff(store, c1, c2) ==
    IF CommitTree(c1) = CommitTree(c2)
    THEN [nodes |-> <<DiffNode("Top", TreeRecord("tree", NoneHash, ""), NoRecord, 0, <<>>, 0)>>,
          pa |-> EmptyDict, pr |-> EmptyDict, stack |-> <<>>, err |-> FALSE]
    ELSE diff_trees(store, LoadTree(CommitTree(c1)), LoadTree(CommitTree(c2)))

CheckoutOutcome(fs, head, res) == [wd |-> fs, HEAD |-> head, res |-> res]

\* checkout_from_empty(repo, target_commit)
checkout_from_empty(fs, store, target) ==
    LET v == validate_new_tree(fs, store, CommitTree(target), <<>>)
    IN IF v # "ok" THEN [fs |-> fs, err |-> v]
       ELSE create_tree(fs, store, CommitTree(target), <<>>)

\* The outcome of the two phases: a failed validation leaves everything as
\* it was; HEAD is written after a complete application.
PhasesOutcome(fs, head, target, v, r) ==
    IF v # "ok" THEN CheckoutOutcome(fs, head, v)
    ELSE IF r.err # "ok" THEN CheckoutOutcome(r.fs, head, r.err)
    ELSE CheckoutOutcome(r.fs, HashRef(target), "ok")

\* lines 28-31 of checkout, given the diff of HEAD and the target
CheckoutDiffs(fs, store, head, target, D) ==
    PhasesOutcome(fs, head, target,
                  IF D.err THEN "RepositoryError"
                  ELSE validate_clean(fs, store, D, D.nodes[1].children, <<>>),
                  apply_checkout(fs, store, D, D.nodes[1].children, <<>>))

\* checkout without the final write of the HEAD file
checkout_HeadNotWritten(fs, store, head, hs, target) ==
    LET hc == head_commit(head, hs)
    IN IF hc.err # "ok" THEN CheckoutOutcome(fs, head, hc.err)
       ELSE IF hc.ref.t = "none"
       THEN LET r == create_tree(fs, store, CommitTree(target), <<>>)
                v == validate_new_tree(fs, store, CommitTree(target), <<>>)
            IN IF v # "ok" THEN CheckoutOutcome(fs, head, v)
               ELSE CheckoutOutcome(r.fs, head, r.err)
       ELSE LET D == RepoDiff(store, hc.ref.hash, target)
                v == IF D.err THEN "RepositoryError"
                     ELSE validate_clean(fs, store, D, D.nodes[1].children, <<>>)
            IN IF v # "ok" THEN CheckoutOutcome(fs, head, v)
               ELSE LET r == apply_checkout(fs, store, D, D.nodes[1].children, <<>>)
                    IN CheckoutOutcome(r.fs, head, r.err)

\* checkout with the apply phase run before the validation phase
checkout_ApplyBeforeValidate(fs, store, head, hs, target) ==
    LET hc == head_commit(head, hs)
    IN IF hc.err # "ok" THEN CheckoutOutcome(fs, head, hc.err)
       ELSE IF hc.ref.t = "none"
       THEN LET r == create_tree(fs, store, CommitTree(target), <<>>)
                v == validate_new_tree(fs, store, CommitTree(target), <<>>)
            IN IF v # "ok" THEN CheckoutOutcome(r.fs, head, v)
               ELSE IF r.err # "ok" THEN CheckoutOutcome(r.fs, head, r.err)
               ELSE CheckoutOutcome(r.fs, HashRef(target), "ok")
       ELSE LET D == RepoDiff(store, hc.ref.hash, target)
                v == IF D.err THEN "RepositoryError"
                     ELSE validate_clean(fs, store, D, D.nodes[1].children, <<>>)
                r == IF D.err THEN FsOk(fs)
                     ELSE apply_checkout(fs, store, D, D.nodes[1].children, <<>>)
            IN IF v # "ok" THEN CheckoutOutcome(r.fs, head, v)
               ELSE IF r.err # "ok" THEN CheckoutOutcome(r.fs, head, r.err)
               ELSE CheckoutOutcome(r.fs, HashRef(target), "ok")

\* checkout(repo, target_commit): validation, then application, then HEAD
checkout(fs, store, head, hs, target) ==
    LET hc == head_commit(head, hs)
    IN IF hc.err # "ok" THEN CheckoutOutcome(fs, head, hc.err)
       ELSE IF hc.ref.t = "none"
       THEN PhasesOutcome(fs, head, target, "ok", checkout_from_empty(fs, store, target))
       ELSE CheckoutDiffs(fs, store, head, target, RepoDiff(store, hc.ref.hash, target))

\* HEAD stays a SymRef when the target of a successful checkout was a branch
AttachHead(r, target) ==
    IF r.res = "ok" /\ IsBranchRef(target) THEN CheckoutOutcome(r.wd, target, "ok") ELSE r

\* Repository.checkout(target): resolve the target, run the checkout engine,
\* and leave HEAD attached when the target was a branch
RepoCheckout(fs, store, head, hs, target) ==
    LET tc == resolve_ref(head, hs, target)
    IN IF tc.err # "ok" THEN CheckoutOutcome(fs, head, tc.err)
       ELSE IF tc.ref.t = "none" \/ tc.ref.hash \notin store
       THEN CheckoutOutcome(fs, head, "RepositoryError")
       ELSE AttachHead(checkout(fs, store, head, hs, tc.ref.hash), target)

(***************************************************************************)
(* Repository operations as actions.                                       *)
(***************************************************************************)
LastCall(op, target, res, ret) == [op |-> op, target |-> target, res |-> res, ret |-> ret]

\* names of the files the user edits between repository calls
EditNames == {"a"}
\* what the user leaves at such a name: no entry, or a file with one of two contents
EditValues == {NoNode, FileNode(BlobHash(1)), FileNode(BlobHash(2))}

\* the user writes or removes a file of the working directory itself
EditFile(n, node) ==
    /\ ~IsDir(wd, <<n>>)
    /\ wd[<<n>>] # node
    /\ wd' = [wd EXCEPT ![<<n>>] = node]
    /\ last' = LastCall("edit", NoRef, "ok", NoneHash)
    /\ UNCHANGED <<objects, HEAD, refs>>
    /\ UNCHANGED <<ivars, MERGE_HEAD>>

\* variant: the author and the message are not looked at
CommitWorkingDir_Unvalidated(author, message) ==
    LET r == CommitResult(wd, objects, HEAD, refs, "ann", "msg")
    IN /\ Cardinality(CommitsOf(r.objects)) <= MaxCommits
       /\ objects' = r.objects
       /\ refs' = r.refs
       /\ last' = LastCall("commit", NoRef, r.res, r.ret)
       /\ UNCHANGED <<wd, HEAD>>
       /\ UNCHANGED <<ivars, MERGE_HEAD>>

\* Repository.commit_working_dir(author, message)
CommitWorkingDir(author, message) ==
    LET r == CommitResult(wd, objects, HEAD, refs, author, message)
    IN /\ Cardinality(CommitsOf(r.objects)) <= MaxCommits
       /\ objects' = r.objects
       /\ refs' = r.refs
       /\ last' = LastCall("commit", NoRef, r.res, r.ret)
       /\ UNCHANGED <<wd, HEAD>>
       /\ UNCHANGED <<ivars, MERGE_HEAD>>

\* targets of checkout: a commit hash or a branch
CheckoutTargets ==
    {HashRef(c) : c \in CommitsOf(objects)} \cup
    {branch_ref(b) : b \in {x \in BranchNames : refs[RefPath[x]].t # "absent"}}

\* Repository.checkout(target)
Checkout(target) ==
    \E r \in {RepoCheckout(wd, objects, HEAD, refs, target)} :
       /\ wd' = r.wd
       /\ HEAD' = r.HEAD
       /\ last' = LastCall("checkout", target, r.res, NoneHash)
       /\ UNCHANGED <<objects, refs>>
       /\ UNCHANGED <<ivars, MERGE_HEAD>>

\* Repository.add_branch(branch)
AddBranch(b) ==
    /\ IF refs[RefPath[b]].t # "absent"
       THEN /\ last' = LastCall("add_branch", NoRef, "RepositoryError", NoneHash)
            /\ UNCHANGED refs
       ELSE /\ refs' = [refs EXCEPT ![RefPath[b]] = NoRef]
            /\ last' = LastCall("add_branch", NoRef, "ok", NoneHash)
    /\ UNCHANGED <<wd, objects, HEAD>>
    /\ UNCHANGED <<ivars, MERGE_HEAD>>

\* Repository.branches(): the names of the files under refs/heads
branches(hs) == {b \in BranchNames : hs[RefPath[b]].t # "absent"}

\* variant: delete_branch without the test for the last branch
DeleteBranch_LastAllowed(b) ==
    /\ IF refs[RefPath[b]].t = "absent"
       THEN /\ last' = LastCall("delete_branch", branch_ref(b), "RepositoryError", NoneHash)
            /\ UNCHANGED refs
       ELSE /\ refs' = [refs EXCEPT ![RefPath[b]] = AbsentRef]
            /\ last' = LastCall("delete_branch", branch_ref(b), "ok", NoneHash)
    /\ UNCHANGED <<wd, objects, HEAD>>
    /\ UNCHANGED <<ivars, MERGE_HEAD>>

\* Repository.delete_branch(branch)
DeleteBranch(b) ==
    /\ IF refs[RefPath[b]].t = "absent"
          \/ Cardinality(branches(refs)) = 1
       THEN /\ last' = LastCall("delete_branch", branch_ref(b), "RepositoryError", NoneHash)
            /\ UNCHANGED refs
       ELSE /\ refs' = [refs EXCEPT ![RefPath[b]] = AbsentRef]
            /\ last' = LastCall("delete_branch", branch_ref(b), "ok", NoneHash)
    /\ UNCHANGED <<wd, objects, HEAD>>
    /\ UNCHANGED <<ivars, MERGE_HEAD>>

\* variant: create_tag without the test for an existing tag
CreateTag_Overwrites(t, ref) ==
    LET r == resolve_ref(HEAD, refs, ref)
        res == IF r.err # "ok" THEN r.err
               ELSE IF r.ref.t = "none" THEN "RepositoryError"
               ELSE "ok"
    IN /\ refs' = IF res = "ok" THEN [refs EXCEPT ![TagPath[t]] = r.ref] ELSE refs
       /\ last' = LastCall("create_tag", NoRef, res, NoneHash)
       /\ UNCHANGED <<wd, objects, HEAD>>
       /\ UNCHANGED <<ivars, MERGE_HEAD>>

\* Repository.create_tag(tag, commit)
CreateTag(t, ref) ==
    LET r == resolve_ref(HEAD, refs, ref)
        res == IF refs[TagPath[t]].t # "absent" THEN "RepositoryError"
               ELSE IF r.err # "ok" THEN r.err
               ELSE IF r.ref.t = "none" THEN "RepositoryError"
               ELSE "ok"
    IN /\ refs' = IF res = "ok" THEN [refs EXCEPT ![TagPath[t]] = r.ref] ELSE refs
       /\ last' = LastCall("create_tag", NoRef, res, NoneHash)
       /\ UNCHANGED <<wd, objects, HEAD>>
       /\ UNCHANGED <<ivars, MERGE_HEAD>>

\* Repository.delete_tag(tag)
DeleteTag(t) ==
    /\ IF refs[TagPath[t]].t = "absent"
       THEN /\ last' = LastCall("delete_tag", NoRef, "RepositoryError", NoneHash)
            /\ UNCHANGED refs
       ELSE /\ refs' = [refs EXCEPT ![TagPath[t]] = AbsentRef]
            /\ last' = LastCall("delete_tag", NoRef, "ok", NoneHash)
    /\ UNCHANGED <<wd, objects, HEAD>>
    /\ UNCHANGED <<ivars, MERGE_HEAD>>

\* the working directory, all of it empty
EmptyFS == [q \in Paths |-> NoNode]

FileValues == {FileNode(BlobHash(c)) : c \in Contents}

\* Repository.init(): an empty default branch, HEAD attached to it
RepoInit ==
    /\ wd = EmptyFS
    /\ objects = {}
    /\ HEAD = branch_ref(DEFAULT_BRANCH)
    /\ MERGE_HEAD = NoneHash
    /\ refs = [n \in RefNames |-> IF n = RefPath[DEFAULT_BRANCH] THEN NoRef ELSE AbsentRef]
    /\ last = LastCall("init", NoRef, "ok", NoneHash)

RepoNext ==
    \/ \E n \in EditNames, node \in EditValues : EditFile(n, node)
    \/ \E a \in Authors, m \in Messages : CommitWorkingDir(a, m)
    \/ \E t \in CheckoutTargets : Checkout(t)
    \/ \E b \in BranchNames : AddBranch(b)
    \/ \E b \in BranchNames : DeleteBranch(b)
    \/ \E t \in TagNames, c \in CommitsOf(objects) : CreateTag(t, HashRef(c))
    \/ \E t \in TagNames : DeleteTag(t)

\* the contents of the files of a working directory
UsedContents(fs) == {c \in Contents : \E q \in Paths : fs[q] = FileNode(BlobHash(c))}

\* the working directories with every entry inside a directory
AllTrees ==
    {fs \in [Paths -> {NoNode, DirNode} \cup FileValues] : WellFormedFS(fs)}

\* file contents are interchangeable: the directories that use the lowest ones
FirstTrees == {fs \in AllTrees : UsedContents(fs) = 1..Cardinality(UsedContents(fs))}

\* the directories that differ from fs below at most one top-level name
EditsOf(fs) ==
    {w \in AllTrees : \E n \in TopNames : \A q \in Paths : q[1] # n => w[q] = fs[q]}

\* the commit of a directory's tree
CommitOf(fs, parent) == CommitHash(WorkTreeHash(fs), "ann", "msg", 0, parent)

\* A repository with two commits: the first made on the default branch and
\* checked out by hash, the second made of an edited directory with HEAD
\* detached, after which the directory was edited to the first commit's tree
\* or to that tree changed below one name.
CheckoutInit ==
    \E t1 \in FirstTrees, t2 \in AllTrees : \E w \in EditsOf(t1) :
        LET c1 == CommitOf(t1, NoneHash)
            c2 == CommitOf(t2, c1)
        IN /\ wd = w
           /\ objects = TreeObjects(BuildTree(t1, <<>>)) \cup TreeObjects(BuildTree(t2, <<>>))
                        \cup {c1, c2}
           /\ HEAD = HashRef(c1)
           /\ MERGE_HEAD = NoneHash
           /\ refs = [n \in RefNames |->
                         IF n = RefPath[DEFAULT_BRANCH] THEN HashRef(c1) ELSE AbsentRef]
           /\ last = IF w = t2 THEN LastCall("commit", NoRef, "ok", c2)
                     ELSE LastCall("edit", NoRef, "ok", NoneHash)

CheckoutNext == \E t \in CheckoutTargets : Checkout(t)

(***************************************************************************)
(* Specifications.                                                         *)
(***************************************************************************)
\* the repository as init() leaves it, with no index file yet
IndexRepoInit == IndexInit /\ RepoInit

\* a repository with two commits, with no index file
IndexCheckoutInit == IndexInit /\ CheckoutInit

\* concurrent writers and a reader of the index of a fresh repository
SpecIndex == IndexRepoInit /\ [][IndexNext]_vars

\* the repository from init() on, with files edited in the working directory
SpecRepo == IndexRepoInit /\ [][RepoNext]_vars

\* checkouts between two commits, from every edited working directory
SpecCheckout == IndexCheckoutInit /\ [][CheckoutNext]_vars

(***************************************************************************)
(* Properties of the staging index.                                        *)
(***************************************************************************)
\* C1: at most one writer is between the exclusive creation of index.lock
\* and its rename or deletion, whatever the number of concurrent calls.
C1_LockMutualExclusion ==
    Cardinality({w \in Writers : InCritical(w)}) <= 1

\* a writer holds the lock while another one has already been refused it
C1_Witness ==
    \E w1, w2 \in Writers : InCritical(w1) /\ wpc[w2] = "acquire" /\ wtries[w2] > 0

\* C2: a read_index that ran concurrently with updates returns one of the
\* complete mappings the index file held while it ran (the one before or the
\* one after each update), never a partial or interleaved mapping.
C2_ReadSeesCompleteIndex ==
    \A r \in Readers : rpc[r] = "done" => rdict[r] \in rseen[r]

\* a read finished after reading lines while an update was committed under it
C2_Witness ==
    \E r \in Readers : rpc[r] = "done" /\ rpos[r] > 0 /\ Cardinality(rseen[r]) >= 2

\* C3: whenever no writer holds the lock, the index holds the result of
\* applying the completed calls one at a time in lock-acquisition order, so
\* no update is lost.
C3_SerialisedNoLostUpdate ==
    (\A w \in Writers : ~InCritical(w)) => IndexMapping = serial

\* two calls on distinct paths overlapped, both completed, both entries present
C3_Witness ==
    \E w1, w2 \in Writers :
        /\ w1 # w2
        /\ wres[w1] = "ok" /\ wres[w2] = "ok"
        /\ wtries[w2] > 0
        /\ wop[w1].path # wop[w2].path
        /\ wop[w1].hash # NoHash /\ wop[w2].hash # NoHash
        /\ <<wop[w1].path, <<wop[w1].hash>> >> \in IndexMapping
        /\ <<wop[w2].path, <<wop[w2].hash>> >> \in IndexMapping

(***************************************************************************)
(* Properties of checkout.                                                 *)
(***************************************************************************)
\* the step is a call of checkout with this outcome
CheckoutStep(res) == last'.op = "checkout" /\ last'.res = res

\* the commit the target of the call resolves to, before the call
TargetCommit == resolve_ref(HEAD, refs, last'.target).ref.hash

\* the diff of HEAD's commit and the target's commit, before the call
HeadTargetDiff == RepoDiff(objects, head_commit(HEAD, refs).ref.hash, TargetCommit)

\* the files of a tree, each with its path below q and its hash
RECURSIVE FilesUnder(_, _)
FilesUnder(records, q) ==
    UNION {IF rec.type = "tree" THEN FilesUnder(rec.hash.r, Append(q, rec.name))
           ELSE {<<Append(q, rec.name), rec.hash>>} : rec \in records}

\* The files, with their recorded hashes, that the diff entries below the
\* given nodes name: a file entry of one of the kinds, or any file of the tree
\* of a directory entry of one of the directory kinds.
RECURSIVE DiffFiles(_, _, _, _, _)
DiffFiles(D, handles, cur, kinds, dirKinds) ==
    UNION {LET d == D.nodes[handles[i]]
               q == Append(cur, d.record.name)
           IN IF d.record.type = "tree"
              THEN (IF d.kind \in dirKinds THEN FilesUnder(d.record.hash.r, q) ELSE {})
                   \cup DiffFiles(D, d.children, q, kinds, dirKinds)
              ELSE IF d.kind \in kinds THEN {<<q, d.record.hash>>} ELSE {}
           : i \in 1..Len(handles)}

\* files on disk whose content differs from what the diff entries record
Mismatched(kinds, dirKinds) ==
    LET D == HeadTargetDiff
    IN {e \in DiffFiles(D, D.nodes[1].children, <<>>, kinds, dirKinds) :
           IsFile(wd, e[1]) /\ wd[e[1]].h # e[2]}

\* files the checkout would remove or replace, changed on disk
DirtyFiles == Mismatched({"Removed", "Modified", "MovedTo"}, {"Removed", "MovedTo"})

\* files the checkout would create, present on disk with other content
CollidingFiles == Mismatched({"Added", "MovedFrom"}, {"Added", "MovedFrom"})

\* C4: whenever checkout(target) raises CheckoutError, every file and
\* directory of the working tree is as before the call and HEAD is unchanged.
C4_FailedCheckoutMutatesNothing ==
    [][CheckoutStep("CheckoutError") => wd' = wd /\ HEAD' = HEAD]_vars

\* a checkout refused although the diff also has entries it could have applied
C4_Witness ==
    /\ last.op = "checkout" /\ last.res = "CheckoutError"
    /\ LET D == RepoDiff(objects, head_commit(HEAD, refs).ref.hash,
                         resolve_ref(HEAD, refs, last.target).ref.hash)
       IN Len(D.nodes[1].children) >= 2

\* C5: starting from a working tree that is clean against HEAD, after
\* checkout(C) succeeds the tree built from the working directory has the
\* hash of C's tree.
C5_CleanCheckoutRestoresTree ==
    [][(/\ CheckoutStep("ok")
        /\ WorkTreeHash(wd) = CommitTree(head_commit(HEAD, refs).ref.hash))
       => WorkTreeHash(wd') = CommitTree(TargetCommit)]_vars

\* C6: if the diff of HEAD and the target has a Removed, Modified or MovedTo
\* entry for a file, at any depth and also inside a Removed or MovedTo
\* directory, whose content on disk differs from the hash recorded in HEAD,
\* checkout fails with CheckoutError and the file keeps its content.
C6_DirtyFileRefused ==
    [][last'.op = "checkout" =>
          LET dirty == DirtyFiles
          IN dirty # {} => /\ last'.res = "CheckoutError"
                           /\ \A e \in dirty : wd'[e[1]] = wd[e[1]]]_vars

\* a refused checkout that left a locally modified file inside a directory
\* the target no longer has
C6_Witness ==
    /\ last.op = "checkout" /\ last.res = "CheckoutError"
    /\ \E q \in Paths :
          /\ Len(q) = 2 /\ IsFile(wd, q)
          /\ LET old == CommitTree(head_commit(HEAD, refs).ref.hash).r
                 new == CommitTree(resolve_ref(HEAD, refs, last.target).ref.hash).r
             IN /\ HasName(old, q[1]) /\ ~HasName(new, q[1])
                /\ RecordOf(old, q[1]).type = "tree"
                /\ \E e \in FilesUnder(old, <<>>) : e[1] = q /\ e[2] # wd[q].h

\* C7: if the diff of HEAD and the target has an Added or MovedFrom file, at
\* top level or inside an Added or MovedFrom directory, and a file with another
\* content hash exists at that path, checkout fails with CheckoutError and the
\* untracked file is not overwritten.
C7_UntrackedCollisionRefused ==
    [][last'.op = "checkout" =>
          LET colliding == CollidingFiles
          IN colliding # {} => /\ last'.res = "CheckoutError"
                               /\ \A e \in colliding : wd'[e[1]] = wd[e[1]]]_vars

\* a refused checkout that left an untracked file inside a directory only the
\* target has
C7_Witness ==
    /\ last.op = "checkout" /\ last.res = "CheckoutError"
    /\ \E q \in Paths :
          /\ Len(q) = 2 /\ IsFile(wd, q)
          /\ LET old == CommitTree(head_commit(HEAD, refs).ref.hash).r
                 new == CommitTree(resolve_ref(HEAD, refs, last.target).ref.hash).r
             IN /\ ~HasName(old, q[1]) /\ HasName(new, q[1])
                /\ RecordOf(new, q[1]).type = "tree"
                /\ \E e \in FilesUnder(new, <<>>) : e[1] = q /\ e[2] # wd[q].h

(***************************************************************************)
(* Properties of commits and of HEAD.                                      *)
(***************************************************************************)
\* the step is a call of commit_working_dir that returned a commit
CommitStep == last'.op = "commit" /\ last'.res = "ok"

\* C8: when HEAD is a SymRef to a branch, commit_working_dir creates a commit
\* whose parent is the commit HEAD resolved to before the call (none for the
\* first commit), advances that branch's ref to the new hash, leaves the HEAD
\* file and every other branch and tag ref as they were, and afterwards
\* head_commit() is the returned hash.
C8_AttachedCommitAdvancesBranch ==
    [][(CommitStep /\ IsBranchRef(HEAD))
       => /\ last'.ret \in objects'
          /\ CommitParent(last'.ret) = head_commit(HEAD, refs).ref.hash
          /\ refs'[HEAD.name] = HashRef(last'.ret)
          /\ HEAD' = HEAD
          /\ \A n \in RefNames \ {HEAD.name} : refs'[n] = refs[n]
          /\ head_commit(HEAD', refs') = Resolved(HashRef(last'.ret))]_vars

\* a second commit on the branch HEAD is attached to, made while another
\* branch and a tag exist
C8_Witness ==
    /\ last.op = "commit" /\ last.res = "ok"
    /\ IsBranchRef(HEAD)
    /\ CommitParent(last.ret) # NoneHash
    /\ refs[HEAD.name] = HashRef(last.ret)
    /\ \E b \in BranchNames : RefPath[b] # HEAD.name /\ refs[RefPath[b]].t # "absent"
    /\ \E t \in TagNames : refs[TagPath[t]].t = "hash"

\* C9: when HEAD holds a HashRef directly, commit_working_dir moves HEAD to
\* the new commit hash, so that head_commit() afterwards is the returned hash,
\* and changes no branch ref.
C9_DetachedCommitMovesHead ==
    [][(CommitStep /\ HEAD.t = "hash")
       => /\ HEAD' = HashRef(last'.ret)
          /\ head_commit(HEAD', refs') = Resolved(HashRef(last'.ret))
          /\ \A b \in BranchNames : refs'[RefPath[b]] = refs[RefPath[b]]]_vars

\* C10: after a successful checkout(target), HEAD is the branch SymRef when
\* the target was a branch SymRef, and a detached HashRef of the target commit
\* otherwise; in both cases head_commit() is the target commit.
C10_CheckoutRetargetsHead ==
    [][CheckoutStep("ok")
       => /\ IF IsBranchRef(last'.target) THEN HEAD' = last'.target
             ELSE HEAD' = HashRef(TargetCommit)
          /\ head_commit(HEAD', refs') = Resolved(HashRef(TargetCommit))]_vars

\* a checkout of a branch that rewrote the working directory and left HEAD
\* attached to the branch
C10_Witness ==
    /\ last.op = "checkout" /\ last.res = "ok"
    /\ IsBranchRef(last.target)
    /\ HEAD = last.target
    /\ WorkTreeHash(wd) = CommitTree(head_commit(HEAD, refs).ref.hash)
    /\ Cardinality(CommitsOf(objects)) >= 2

(***************************************************************************)
(* update_index called by one process at a time (index.py), each call as   *)
(* one step.  Paths are sequences of components, a component is a sequence *)
(* of characters; the metadata directory `.caf' is the component `m'.     *)
(***************************************************************************)
\* calls of update_index over one behaviour
MaxCalls == 3

\* the absolute path of the working directory, and repo_dir_name
WorkDir == << <<"w">> >>
MetaName == <<"m">>
DotDot == <<".", ".">>

\* str.casefold() of a component
Casefold(name) == [i \in 1..Len(name) |-> IF name[i] = "M" THEN "m" ELSE name[i]]

\* os.path.abspath: `..' is resolved lexically and never leaves the root
RECURSIVE AbsPath(_, _)
AbsPath(parts, acc) ==
    IF parts = <<>> THEN acc
    ELSE IF Head(parts) = DotDot
    THEN AbsPath(Tail(parts), IF acc = <<>> THEN <<>> ELSE SubSeq(acc, 1, Len(acc) - 1))
    ELSE AbsPath(Tail(parts), Append(acc, Head(parts)))

\* Path.as_posix(): the components joined by `/'
RECURSIVE JoinPath(_)
JoinPath(parts) ==
    IF parts = <<>> THEN <<>>
    ELSE IF Len(parts) = 1 THEN Head(parts)
    ELSE Head(parts) \o <<"/">> \o JoinPath(Tail(parts))

\* Path(rel_path).parts: the string split at `/'
RECURSIVE SplitPath(_, _)
SplitPath(str, cur) ==
    IF str = <<>> THEN (IF cur = <<>> THEN <<>> ELSE <<cur>>)
    ELSE IF Head(str) = "/" THEN <<cur>> \o SplitPath(Tail(str), <<>>)
    ELSE SplitPath(Tail(str), Append(cur, Head(str)))

\* normalize_path(path, working_dir): the repository-relative posix string
normalize_path(raw) ==
    LET full == AbsPath(IF raw.abs THEN raw.parts ELSE WorkDir \o raw.parts, <<>>)
    IN IF IsPrefix(WorkDir, full) /\ full # WorkDir
       THEN [err |-> "ok", path |-> JoinPath(SubSeq(full, Len(WorkDir) + 1, Len(full)))]
       ELSE [err |-> "ValueError", path |-> <<>>]

\* variant: the check of the path components against repo_dir_name is left out
InsideMeta_Unchecked(rel_path) == FALSE

\* any(part.casefold() == repo_dir_name_cf for part in rel_parts)
InsideMeta(rel_path) ==
    \E i \in 1..Len(SplitPath(rel_path, <<>>)) :
        Casefold(SplitPath(rel_path, <<>>)[i]) = Casefold(MetaName)

\* the body of merge_index run to its end over the lines of the old index
RECURSIVE MergeLines(_, _, _, _)
MergeLines(lines, op, ins, out) ==
    IF lines = <<>> THEN out \o MergeTailOutput(op, ins)
    ELSE MergeLines(Tail(lines), op, MergeLineOutput(Head(lines), op, ins).ins,
                    out \o MergeLineOutput(Head(lines), op, ins).out)

\* merge_index(target_path, new_hash, index_path): the content renamed to index
merge_index(exists, content, op) ==
    IF ~exists THEN MergeTailOutput(op, FALSE)
    ELSE MergeLines(FileLines(content), op, FALSE, <<>>)

\* the hexadecimal hash of the blob with content c, as written to the index
HashToken(c) == IF c = 0 THEN NoHash ELSE IF c = 1 THEN "h1" ELSE "h2"

\* update_index(path, ..., remove): c = 0 stands for remove=True
update_index(exists, content, raw, c) ==
    LET n == normalize_path(raw)
    IN IF n.err # "ok" \/ InsideMeta(n.path)
       THEN [res |-> "ValueError", path |-> n.path, exists |-> exists,
             content |-> content, blobs |-> {}]
       ELSE [res |-> "ok", path |-> n.path, exists |-> TRUE,
             content |-> merge_index(exists, content,
                                     [path |-> n.path, hash |-> HashToken(c)]),
             blobs |-> IF c = 0 THEN {} ELSE {BlobHash(c)}]

\* paths handed to update_index: names with or without a line terminator,
\* a nested path, paths through `..', paths outside the working directory
\* and paths inside the metadata directory
RawPaths ==
    {[abs |-> FALSE, parts |-> ps] :
        ps \in {<< <<"a">> >>, << <<"a", "b">> >>, << <<"b">> >>, << <<"a", "\n", "b">> >>,
                << <<"a">>, <<"b">> >>, <<DotDot, <<"w">>, <<"b">> >>,
                <<DotDot, <<"a">> >>, <<MetaName, <<"a">> >>, << <<"a">>, <<"M">> >>}}
    \cup {[abs |-> TRUE, parts |-> ps] : ps \in {<< <<"w">>, <<"a">> >>, << <<"a">> >>}}

\* contents of the files added to the index
SeqContents == {1, 2}

\* the content of the index file, empty when it is missing
IndexContent == IF dirIndex = 0 THEN <<>> ELSE inodes[dirIndex]

\* one call of update_index or of remove_from_index, from entry to return
UpdateIndex(raw, c) ==
    /\ opsStarted < MaxCalls
    /\ opsStarted' = opsStarted + 1
    /\ \E r \in {update_index(dirIndex # 0, IndexContent, raw, c)} :
          /\ dirIndex' = IF r.exists THEN 1 ELSE 0
          /\ inodes' = [inodes EXCEPT ![1] = r.content]
          /\ objects' = objects \cup r.blobs
          /\ last' = LastCall("update_index",
                              [raw |-> raw, path |-> r.path, hash |-> HashToken(c)],
                              r.res, NoneHash)
    /\ UNCHANGED <<dirLock, wpc, wop, wlock, wold, wpos, winserted, wres, wtries,
                   rpc, rino, rpos, rdict, rseen, serial, serialPrev, readsStarted>>
    /\ UNCHANGED <<wd, HEAD, refs, MERGE_HEAD>>

SeqIndexNext == \E raw \in RawPaths, c \in SeqContents \cup {0} : UpdateIndex(raw, c)

\* update_index and remove_from_index called one after the other on a fresh
\* repository
SpecIndexSeq == IndexRepoInit /\ [][SeqIndexNext]_vars

(***************************************************************************)
(* Properties of update_index called by one process at a time.             *)
(***************************************************************************)
\* the step is a call of update_index that went through merge_index
IndexCallStep == last'.op = "update_index" /\ last'.res = "ok"

\* no line terminator in the path
PlainPath(path) == \A i \in 1..Len(path) : path[i] # "\n"

\* a line `PATH HASH' with a path and one hash token
WellFormedLine(line) ==
    /\ ParseLine(line) # <<>>
    /\ ParseLine(line)[1] # <<>>
    /\ Len(ParseLine(line)[2]) = 1

\* every line is well formed and the paths increase strictly
SortedIndexFile(content) ==
    /\ \A i \in 1..Len(FileLines(content)) : WellFormedLine(FileLines(content)[i])
    /\ \A i, j \in 1..Len(FileLines(content)) :
          i < j => StrLess(ParseLine(FileLines(content)[i])[1],
                           ParseLine(FileLines(content)[j])[1])

\* C11 as stated: after any sequence of update_index and remove_from_index
\* calls on a fresh repository, the index file has one well-formed line per
\* entry, with paths in strictly increasing order.
C11_IndexAlwaysSorted == SortedIndexFile(IndexContent)

\* C11: a call of update_index or remove_from_index whose path contains no
\* line terminator turns a well-formed, strictly sorted index file into a
\* well-formed, strictly sorted index file.
C11_PlainUpdateKeepsSorted ==
    [][(IndexCallStep /\ PlainPath(last'.target.path) /\ SortedIndexFile(IndexContent))
       => SortedIndexFile(IndexContent')]_vars

\* C12 as stated: for every mapping, path and hash, the call yields the
\* mapping with the path mapped to the hash, or without the path for a
\* removal, every other entry as it was.
C12_UpdateTouchesOnlyTarget ==
    [][IndexCallStep => IndexMapping' = ApplyOp(IndexMapping, last'.target)]_vars

\* C12: for a path without a line terminator, update_index yields the mapping
\* with the path mapped to the hash and remove_from_index the mapping without
\* the path, every entry for another path keeping its hash.
C12_PlainUpdateTouchesOnlyTarget ==
    [][(IndexCallStep /\ PlainPath(last'.target.path))
       => IndexMapping' = ApplyOp(IndexMapping, last'.target)]_vars

\* the paths of RawPaths outside the working directory
OutsidePaths ==
    {[abs |-> FALSE, parts |-> <<DotDot, <<"a">> >>], [abs |-> TRUE, parts |-> << <<"a">> >>]}

\* the paths of RawPaths with a component that is the metadata directory name
\* in some letter case
MetaPaths ==
    {[abs |-> FALSE, parts |-> <<MetaName, <<"a">> >>],
     [abs |-> FALSE, parts |-> << <<"a">>, <<"M">> >>]}

WriterNext(w) ==
    \/ AcquireLock(w) \/ WaitForLock(w) \/ LockTimeout(w)
    \/ CheckIndex(w) \/ MergeLine(w) \/ MergeEnd(w) \/ CommitIndex(w)

\* the writers' steps alone: read_index never touches index.lock
LockNext ==
    \/ \E w \in Writers, p \in IndexPaths, h \in IndexHashes \cup {NoHash} : StartUpdate(w, p, h)
    \/ \E w \in Writers : AcquireLock(w)
    \/ \E w \in Writers : WaitForLock(w)
    \/ \E w \in Writers : LockTimeout(w)
    \/ \E w \in Writers : CheckIndex(w)
    \/ \E w \in Writers : MergeLine(w)
    \/ \E w \in Writers : MergeEnd(w)
    \/ \E w \in Writers : CommitIndex(w)
    \/ \E w \in Writers : FailUpdate(w)

\* concurrent writers, each writer process scheduled again and again (the
\* wait loop sleeps and retries, the body of the with block runs on)
SpecIndexFair ==
    IndexRepoInit /\ [][LockNext]_vars /\ \A w \in Writers : WF_vars(WriterNext(w))

LockWaitStep ==
    /\ \A w \in Writers :
            (wres[w] = "running" /\ wres'[w] = "timeout")
            => (dirLock' = dirLock /\ dirIndex' = dirIndex /\ inodes' = inodes)
    /\ (dirIndex' # dirIndex)
            => (\E w \in Writers : /\ InCritical(w)
                                   /\ wlock[w] = dirLock
                                   /\ dirIndex' = dirLock)

\* C15: a writer refused index.lock that gives up with TimeoutError leaves
\* index.lock and the index as they are; the index is only replaced by the
\* writer holding index.lock; and every writer waiting for the lock
\* eventually acquires it or times out (no writer stays in the wait loop
\* from some point on).
C15_BoundedLockWait ==
    /\ [][LockWaitStep]_vars
    /\ \A w \in Writers : []<>(wpc[w] # "acquire")

\* a writer timed out while the other one was still inside the lock
C15_Witness ==
    \E w1, w2 \in Writers :
        /\ wres[w1] = "timeout" /\ wtries[w1] = MaxWaitTries
        /\ InCritical(w2) /\ wlock[w2] = dirLock

(***************************************************************************)
(* Properties of branches and of reference resolution.                     *)
(***************************************************************************)
\* a delete_branch call on the only branch there is
DeletesLastBranch ==
    /\ last'.op = "delete_branch"
    /\ branches(refs) = {b \in BranchNames : branch_ref(b) = last'.target}

\* C16: the repository always has a branch, and delete_branch of the only
\* remaining branch fails with RepositoryError and leaves every ref as it is.
C16_BranchAlwaysExists ==
    /\ [](branches(refs) # {})
    /\ [][DeletesLastBranch => (last'.res = "RepositoryError" /\ refs' = refs)]_vars

\* delete_branch was refused for the branch that is the only one left, after
\* another branch had been added and deleted
C16_Witness ==
    /\ last.op = "delete_branch"
    /\ last.res = "RepositoryError"
    /\ branches(refs) = {"dev"}
    /\ last.target = branch_ref("dev")

(***************************************************************************)
(* resolve_ref applied to the ref files a repository can hold.             *)
(***************************************************************************)
\* the bare strings resolve_ref is called with
StrInputs ==
    {"HEAD", "head", "Head", "main", "dev", "v1", "heads/main", "nope",
     "a1", "A1", "a", "a1a", "ag", ""}

\* the Ref values resolve_ref is called with
RefInputs ==
    {NoRef, HashRef(TextHash("a1")), SymRef("HEAD"), SymRef("head")}
        \cup {SymRef(n) : n \in RefNames}

\* what a file under refs holds: nothing yet, a hash, a symbolic reference
\* written by update_ref, or content read_ref rejects
RefContents ==
    {AbsentRef, NoRef, InvalidRef, HashRef(TextHash("a1"))}
        \cup {SymRef(n) : n \in RefNames \cup {"HEAD"}}

\* a repository with at least one branch and a HEAD file
ResolveInit ==
    /\ wd = EmptyFS
    /\ objects = {}
    /\ HEAD \in {branch_ref(b) : b \in BranchNames} \cup {HashRef(TextHash("a1"))}
    /\ MERGE_HEAD = NoneHash
    /\ refs \in [RefNames -> RefContents]
    /\ branches(refs) # {}
    /\ last = LastCall("init", NoRef, "ok", NoneHash)

\* resolve_ref(ref) with a Ref or None
ResolveRef(ref) ==
    /\ \E r \in {resolve_ref(HEAD, refs, ref)} :
           last' = LastCall("resolve_ref", [k |-> "ref", s |-> "", ref |-> ref], r.err, r.ref)
    /\ UNCHANGED <<wd, objects, HEAD, refs>>
    /\ UNCHANGED <<ivars, MERGE_HEAD>>

\* resolve_ref(ref) with a bare string
ResolveStr(s) ==
    /\ \E r \in {resolve_str(HEAD, refs, s)} :
           last' = LastCall("resolve_ref", [k |-> "str", s |-> s, ref |-> NoRef], r.err, r.ref)
    /\ UNCHANGED <<wd, objects, HEAD, refs>>
    /\ UNCHANGED <<ivars, MERGE_HEAD>>

ResolveNext ==
    \/ \E ref \in RefInputs : ResolveRef(ref)
    \/ \E s \in StrInputs : ResolveStr(s)

IndexResolveInit == IndexInit /\ ResolveInit

SpecResolve == IndexResolveInit /\ [][ResolveNext]_vars

\* the ref file of the branch or tag a bare name designates
NamedRefs(hs, s) == {n \in DOMAIN hs : hs[n].t # "absent" /\ RefFileName(n) = s}

\* what the name disambiguation rule gives for a bare string
DisambiguationRule(head, hs, s) ==
    IF IsHeadName(s) THEN resolve_ref(head, hs, head)
    ELSE IF NamedRefs(hs, s) # {}
         THEN resolve_ref(head, hs, SymRef(CHOOSE n \in NamedRefs(hs, s) : TRUE))
    ELSE IF IsHashText(s) THEN Resolved(HashRef(TextHash(s)))
    ELSE ResolveFailed("RefError")

\* C17: a bare string that is HEAD in any letter case resolves through the
\* HEAD file; otherwise the name of an existing branch or tag resolves to the
\* hash that ref holds; otherwise HASH_LENGTH lowercase hex characters give
\* the HashRef itself; anything else is a RefError.
C17_NameDisambiguation ==
    (last.op = "resolve_ref" /\ last.target.k = "str")
    => [err |-> last.res, ref |-> last.ret] = DisambiguationRule(HEAD, refs, last.target.s)

\* C18: resolve_ref ends with a HashRef or None, or with RefError when the
\* chain is cyclic, a ref file is missing or its content is invalid.
C18_ResolutionEnds ==
    last.op = "resolve_ref"
    => \/ last.res = "ok" /\ last.ret.t \in {"hash", "none"}
       \/ last.res = "RefError"

(***************************************************************************)
(* merge_base (merge.py) applied to first-parent histories.                *)
(***************************************************************************)
\* load_commit(...).parents[0], or None when the commit has no parent or
\* cannot be loaded
FirstParent(store, c) ==
    IF c \in store /\ c.t = "commit" THEN CommitParent(c) ELSE NoneHash

\* variant: the second cursor is not tested against the visited set
RECURSIVE MergeBaseLoop_SecondUnchecked(_, _, _, _)
MergeBaseLoop_SecondUnchecked(store, curr1, curr2, visited) ==
    IF curr1 = NoneHash /\ curr2 = NoneHash THEN NoneHash
    ELSE IF curr1 # NoneHash /\ curr1 \in visited THEN curr1
    ELSE MergeBaseLoop_SecondUnchecked(store,
             IF curr1 # NoneHash THEN FirstParent(store, curr1) ELSE NoneHash,
             IF curr2 # NoneHash THEN FirstParent(store, curr2) ELSE NoneHash,
             visited \cup ({curr1, curr2} \ {NoneHash}))

\* the while loop of merge_base: one turn moves both cursors
RECURSIVE MergeBaseLoop(_, _, _, _)
MergeBaseLoop(store, curr1, curr2, visited) ==
    IF curr1 = NoneHash /\ curr2 = NoneHash THEN NoneHash
    ELSE IF curr1 # NoneHash /\ curr1 \in visited THEN curr1
    ELSE IF curr2 # NoneHash /\ curr2 \in (visited \cup ({curr1} \ {NoneHash})) THEN curr2
    ELSE MergeBaseLoop(store,
             IF curr1 # NoneHash THEN FirstParent(store, curr1) ELSE NoneHash,
             IF curr2 # NoneHash THEN FirstParent(store, curr2) ELSE NoneHash,
             visited \cup ({curr1, curr2} \ {NoneHash}))

\* merge_base(repo_objects_dir, commit_hash1, commit_hash2)
merge_base(store, commit_hash1, commit_hash2) ==
    MergeBaseLoop(store, commit_hash1, commit_hash2, {})

\* timestamps that tell the commits of one parent apart
CommitTimes == {1, 2}

\* longest first-parent chain in the histories examined
MaxHistory == 3

\* the commits with a first-parent chain of d commits
RECURSIVE CommitsOfDepth(_)
CommitsOfDepth(d) ==
    {CommitHash(TreeHash({}), "ann", "msg", t, parent) :
        t \in CommitTimes,
        parent \in IF d = 1 THEN {NoneHash} ELSE CommitsOfDepth(d - 1)}

HistoryCommits == UNION {CommitsOfDepth(d) : d \in 1..MaxHistory}

\* an object store holding the histories, at most one commit object missing
MergeBaseInit ==
    /\ wd = EmptyFS
    /\ \E missing \in {{}} \cup {{c} : c \in HistoryCommits} :
          objects = HistoryCommits \ missing
    /\ HEAD = branch_ref(DEFAULT_BRANCH)
    /\ MERGE_HEAD = NoneHash
    /\ refs = [n \in RefNames |-> IF n = RefPath[DEFAULT_BRANCH] THEN NoRef ELSE AbsentRef]
    /\ last = LastCall("init", NoRef, "ok", NoneHash)

\* merge_base(objects_dir, a, b)
MergeBase(a, b) ==
    /\ last' = LastCall("merge_base", [a |-> a, b |-> b], "ok", merge_base(objects, a, b))
    /\ UNCHANGED <<wd, objects, HEAD, refs>>
    /\ UNCHANGED <<ivars, MERGE_HEAD>>

\* one call on the store as it was set up
MergeBaseNext ==
    /\ last.op = "init"
    /\ \E a, b \in HistoryCommits : MergeBase(a, b)

IndexMergeBaseInit == IndexInit /\ MergeBaseInit

SpecMergeBase == IndexMergeBaseInit /\ [][MergeBaseNext]_vars

\* the first-parent chain of c, from c backwards
RECURSIVE ChainOf(_, _)
ChainOf(store, c) ==
    IF c = NoneHash THEN <<>> ELSE <<c>> \o ChainOf(store, FirstParent(store, c))

\* the commits of a chain
Members(chain) == {chain[i] : i \in DOMAIN chain}

\* how many commits of the chain lead up to and include x
StepsTo(chain, x) == CHOOSE i \in DOMAIN chain : chain[i] = x

\* x lies on both chains and no commit on both chains is nearer to the start
\* of either
NearestCommon(ca, cb, x) ==
    /\ x \in Members(ca) \cap Members(cb)
    /\ \A y \in Members(ca) \cap Members(cb) :
          /\ StepsTo(ca, x) <= StepsTo(ca, y)
          /\ StepsTo(cb, x) <= StepsTo(cb, y)

\* what is claimed of the merge base x of the chains ca of a and cb of b
MergeBaseOf(ca, cb, a, b, x) ==
    /\ (x = NoneHash) <=> (Members(ca) \cap Members(cb) = {})
    /\ (x # NoneHash) => NearestCommon(ca, cb, x)
    /\ (a \in Members(cb)) => (x = a)
    /\ (b \in Members(ca)) => (x = b)

\* C19: merge_base(A, B) equals merge_base(B, A); it is the nearest commit on
\* both first-parent chains; it is A when A is a first-parent ancestor of B,
\* and B in the symmetric case; it is None exactly when the chains share no
\* commit.
C19_MergeBaseConsistent ==
    last.op = "merge_base"
    => /\ last.ret = merge_base(objects, last.target.b, last.target.a)
       /\ \E ca \in {ChainOf(objects, last.target.a)},
             cb \in {ChainOf(objects, last.target.b)} :
             MergeBaseOf(ca, cb, last.target.a, last.target.b, last.ret)

\* two histories that fork: the merge base is neither commit, one step from
\* the one and two steps from the other
C19_Witness ==
    /\ last.op = "merge_base"
    /\ last.ret # NoneHash
    /\ last.ret \notin {last.target.a, last.target.b}
    /\ StepsTo(ChainOf(objects, last.target.a), last.ret) = 2
    /\ StepsTo(ChainOf(objects, last.target.b), last.ret) = 3

(***************************************************************************)
(* _merge_trees (merge.py) applied to three trees.                         *)
(***************************************************************************)
\* MergeAction(type, path, path_str, blob_hash, h_base, h_head)
MergeAction(type, path, blob_hash, h_base, h_head) ==
    [type |-> type, path |-> path, blob_hash |-> blob_hash, h_base |-> h_base,
     h_head |-> h_head]

\* load_tree(objects_dir, hash) if hash else Tree({})
TreeOrEmpty(h) == IF h = NoneHash THEN {} ELSE LoadTree(h)

\* tree.records.get(name)
GetRecord(records, name) ==
    IF HasName(records, name) THEN RecordOf(records, name) ELSE NoRecord

\* sorted(all_names, reverse=True)
RECURSIVE Reversed(_)
Reversed(seq) == IF seq = <<>> THEN <<>> ELSE Append(Reversed(Tail(seq)), Head(seq))

\* the body of the for loop: one name of the three trees of a stack entry,
\* giving the stack and the actions yielded so far
MergeName(top, name, st) ==
    LET base_record == GetRecord(TreeOrEmpty(top.b), name)
        head_record == GetRecord(TreeOrEmpty(top.h), name)
        other_record == GetRecord(TreeOrEmpty(top.o), name)
        h_base == base_record.hash
        h_head == head_record.hash
        h_other == other_record.hash
        path == Append(top.path, name)
    IN IF /\ base_record.type \in {"tree", "none"}
          /\ head_record.type \in {"tree", "none"}
          /\ other_record.type \in {"tree", "none"}
       THEN [st EXCEPT !.stack = Append(@, [b |-> h_base, h |-> h_head, o |-> h_other,
                                            path |-> path])]
       ELSE IF h_head = h_other THEN st
       ELSE IF h_head = h_base /\ h_other # h_base
            THEN IF h_other = NoneHash
                 THEN [st EXCEPT !.out = Append(@, MergeAction("DELETE", path, NoneHash,
                                                               NoneHash, NoneHash))]
                 ELSE [st EXCEPT !.out = Append(@, MergeAction("UPDATE", path, h_other,
                                                               NoneHash, NoneHash))]
       ELSE IF h_other = h_base /\ h_head # h_base THEN st
       ELSE [st EXCEPT !.out = Append(@, MergeAction("CONFLICT", path, h_other,
                                                     h_base, h_head))]

\* the for loop over the names of one stack entry
RECURSIVE MergeNames(_, _, _)
MergeNames(top, names, st) ==
    IF names = <<>> THEN st
    ELSE MergeNames(top, Tail(names), MergeName(top, Head(names), st))

\* the while loop: pop an entry, skip it when the trees agree
RECURSIVE MergeStack(_)
MergeStack(st) ==
    IF st.stack = <<>> THEN st.out
    ELSE LET top == st.stack[Len(st.stack)]
             popped == [st EXCEPT !.stack = SubSeq(@, 1, Len(@) - 1)]
         IN IF top.b = top.h /\ top.h = top.o THEN MergeStack(popped)
            ELSE IF top.h = top.o THEN MergeStack(popped)
            ELSE MergeStack(MergeNames(top,
                     Reversed(SortedNames(TreeOrEmpty(top.b) \cup TreeOrEmpty(top.h)
                                              \cup TreeOrEmpty(top.o))),
                     popped))

\* list(_merge_trees(objects_dir, working_dir, base, head, other))
merge_trees(base_tree_hash, head_tree_hash, other_tree_hash) ==
    MergeStack([stack |-> <<[b |-> base_tree_hash, h |-> head_tree_hash,
                             o |-> other_tree_hash, path |-> <<>>]>>,
                out |-> <<>>])

\* the trees of the commits that are merged
MergeTreeHashes == {WorkTreeHash(fs) : fs \in AllTrees}

\* an object store that holds every tree
MergeTreesInit ==
    /\ wd = EmptyFS
    /\ objects = UNION {TreeObjects(h.r) : h \in MergeTreeHashes}
    /\ HEAD = branch_ref(DEFAULT_BRANCH)
    /\ MERGE_HEAD = NoneHash
    /\ refs = [n \in RefNames |-> IF n = RefPath[DEFAULT_BRANCH] THEN NoRef ELSE AbsentRef]
    /\ last = LastCall("init", NoRef, "ok", NoneHash)

\* _merge_trees on the trees of a base (or no base), a head and another commit
MergeTrees(b, h, o) ==
    /\ last' = LastCall("merge_trees", [b |-> b, h |-> h, o |-> o], "ok", merge_trees(b, h, o))
    /\ UNCHANGED <<wd, objects, HEAD, refs>>
    /\ UNCHANGED <<ivars, MERGE_HEAD>>

\* one call on the store as it was set up
MergeTreesNext ==
    /\ last.op = "init"
    /\ \E b \in MergeTreeHashes \cup {NoneHash}, h, o \in MergeTreeHashes : MergeTrees(b, h, o)

IndexMergeTreesInit == IndexInit /\ MergeTreesInit

SpecMergeTrees == IndexMergeTreesInit /\ [][MergeTreesNext]_vars

\* the record at a path of a tree, NoRecord when the path is not in it
RECURSIVE RecordAt(_, _)
RecordAt(tree, path) ==
    IF tree = NoneHash \/ tree.t # "tree" THEN NoRecord
    ELSE IF Len(path) = 1 THEN GetRecord(LoadTree(tree), path[1])
    ELSE RecordAt(GetRecord(LoadTree(tree), path[1]).hash, Tail(path))

\* the actions the classification by (h_base, h_head, h_other) asks for
Classified(path, h_base, h_head, h_other) ==
    IF h_head = h_other \/ h_other = h_base THEN {}
    ELSE IF h_head = h_base
         THEN IF h_other = NoneHash THEN {[type |-> "DELETE", path |-> path, blob_hash |-> NoneHash]}
              ELSE {[type |-> "UPDATE", path |-> path, blob_hash |-> h_other]}
    ELSE {[type |-> "CONFLICT", path |-> path, blob_hash |-> h_other]}

\* the actions emitted for a path
EmittedAt(actions, path) ==
    {[type |-> actions[i].type, path |-> path, blob_hash |-> actions[i].blob_hash] :
        i \in {j \in DOMAIN actions : actions[j].path = path}}

\* the paths of the files of the three trees
FilePaths(b, h, o) ==
    {q \in Paths : \E t \in {b, h, o} : RecordAt(t, q).type = "blob"}

\* C20: every path of a file in base, head or other gets the action its
\* three hashes ask for: none when h_head = h_other or h_other = h_base,
\* UPDATE with h_other or DELETE when h_head = h_base, CONFLICT otherwise;
\* and no path gets two actions.
C20_ThreeWayClassification ==
    last.op = "merge_trees"
    => /\ \A q \in FilePaths(last.target.b, last.target.h, last.target.o) :
             EmittedAt(last.ret, q)
                 = Classified(q, RecordAt(last.target.b, q).hash,
                              RecordAt(last.target.h, q).hash,
                              RecordAt(last.target.o, q).hash)
       /\ \A i, j \in DOMAIN last.ret : last.ret[i].path = last.ret[j].path => i = j

(***************************************************************************)
(* merge_commits (merge.py) and Repository.merge.                          *)
(***************************************************************************)
\* the content of a file nobody wrote to (Path.touch, write_text(""))
EmptyBlob == BlobHash(-1)

\* the merged text with the two sides between conflict markers
ConflictBlob(source, other) ==
    [t |-> "blob", c |-> 0, r |-> {}, p |-> <<"conflict", source, other>>]

HasMarkers(h) == Len(h.p) = 3 /\ h.p[1] = "conflict"

\* merge_content(base, source, other, labels): a file is one line or empty,
\* so two different changes of the base always overlap
merge_content(base, source, other) ==
    IF source = other THEN source
    ELSE IF base = source THEN other
    ELSE IF base = other THEN source
    ELSE ConflictBlob(source, other)

\* the hexadecimal hash as it stands in the index file
HexToken(h) ==
    IF h.t = "blob" /\ h.p = <<>> /\ h.c \in SeqContents THEN HashToken(h.c) ELSE ToString(h)

\* action.path_str: the names joined by `/'
RECURSIVE PathStr(_)
PathStr(q) ==
    IF Len(q) = 1 THEN <<q[1]>> ELSE <<q[1], "/">> \o PathStr(Tail(q))

\* index.write_index(index_path, index_data): one line per entry, sorted by path
RECURSIVE write_index(_)
write_index(mapping) ==
    IF mapping = {} THEN <<>>
    ELSE LET e == CHOOSE x \in mapping : \A y \in mapping : y = x \/ StrLess(x[1], y[1])
         IN FormatLine(e[1], e[2]) \o write_index(mapping \ {e})

\* write_blob(objects_dir, blob_hash, path): the stored content streamed to path
write_blob(fs, store, h, q) ==
    IF h \notin store THEN FsErr(fs)
    ELSE LET m == MkdirParents(fs, ParentPath(q))
         IN IF m.err # "ok" THEN m ELSE WriteFile(m.fs, q, ContentOf(h))

\* the state merge_commits works on: working directory, object store,
\* index_data, and the exception raised so far
MergeState(fs, store, index, err) == [fs |-> fs, store |-> store, index |-> index, err |-> err]

IndexPut(index, q, h) ==
    {e \in index : e[1] # PathStr(q)} \cup {<<PathStr(q), <<HexToken(h)>> >>}

\* shutil.rmtree(action.path) when the path is a directory
RmtreeIfDir(fs, q) == IF IsDir(fs, q) THEN delete_tree(fs, q) ELSE FsOk(fs)

\* the DELETE branch
MergeDelete(s, a) ==
    LET r == IF IsFile(s.fs, a.path) THEN Unlink(s.fs, a.path)
             ELSE RmtreeIfDir(s.fs, a.path)
    IN MergeState(r.fs, s.store,
                  IF r.err = "ok" THEN {e \in s.index : e[1] # PathStr(a.path)} ELSE s.index,
                  r.err)

\* the UPDATE branch
MergeUpdate(s, a) ==
    LET d == RmtreeIfDir(s.fs, a.path)
        r == IF d.err # "ok" THEN d ELSE write_blob(d.fs, s.store, a.blob_hash, a.path)
    IN MergeState(r.fs, s.store,
                  IF r.err = "ok" THEN IndexPut(s.index, a.path, a.blob_hash) ELSE s.index,
                  r.err)

\* the temporary file of one side: the stored object, or an empty file
SideContent(h, fallback) == IF h # NoneHash THEN ContentOf(h) ELSE fallback

\* the CONFLICT branch
MergeConflict(s, a) ==
    LET p_base == SideContent(a.h_base, EmptyBlob)
        p_source == SideContent(a.h_head, IF IsFile(s.fs, a.path) THEN s.fs[a.path].h
                                          ELSE EmptyBlob)
        p_other == SideContent(a.blob_hash, EmptyBlob)
        merged == merge_content(p_base, p_source, p_other)
        m == MkdirParents(s.fs, ParentPath(a.path))
        d == IF m.err # "ok" THEN m ELSE RmtreeIfDir(m.fs, a.path)
        r == IF d.err # "ok" THEN d ELSE WriteFile(d.fs, a.path, merged)
    IN IF ({a.h_base, a.h_head, a.blob_hash} \ {NoneHash}) \subseteq s.store
       THEN MergeState(r.fs,
                       IF r.err = "ok" THEN s.store \cup {merged} ELSE s.store,
                       IF r.err = "ok" THEN IndexPut(s.index, a.path, merged) ELSE s.index,
                       r.err)
       ELSE MergeState(s.fs, s.store, s.index, "OSError")

\* the for loop over the actions; an exception ends it
RECURSIVE MergeActions(_, _)
MergeActions(s, actions) ==
    IF actions = <<>> \/ s.err # "ok" THEN s
    ELSE LET a == Head(actions)
         IN MergeActions(IF a.type = "DELETE" THEN MergeDelete(s, a)
                         ELSE IF a.type = "UPDATE" THEN MergeUpdate(s, a)
                         ELSE MergeConflict(s, a),
                         Tail(actions))

\* the outcome of a merge: the files it leaves and the actions it reports
MergeOutcome(fs, store, head, hs, mh, exists, content, res, actions) ==
    [wd |-> fs, objects |-> store, HEAD |-> head, refs |-> hs, MERGE_HEAD |-> mh,
     exists |-> exists, content |-> content, res |-> res, actions |-> actions]

\* merge_commits(objects_dir, working_dir, index_path, head, other, base, label):
\* the index is written once every action was applied
merge_commits(fs, store, index, head_commit_hash, other_commit_hash, base_commit_hash) ==
    IF {head_commit_hash, other_commit_hash} \cup ({base_commit_hash} \ {NoneHash})
           \subseteq CommitsOf(store)
    THEN LET actions == merge_trees(IF base_commit_hash = NoneHash THEN NoneHash
                                    ELSE CommitTree(base_commit_hash),
                                    CommitTree(head_commit_hash),
                                    CommitTree(other_commit_hash))
         IN [s |-> MergeActions(MergeState(fs, store, index, "ok"), actions),
             actions |-> actions]
    ELSE [s |-> MergeState(fs, store, index, "RepositoryError"), actions |-> <<>>]

\* the fast-forward: the checkout of the other commit, then the branch HEAD
\* is attached to is moved to it
FastForward(fs, store, head, hs, mh, exists, content, other_hash) ==
    LET r == checkout(fs, store, head, hs, other_hash)
    IN IF r.res # "ok"
       THEN MergeOutcome(r.wd, store, r.HEAD, hs, mh, exists, content, r.res, <<>>)
       ELSE IF head.t = "sym"
       THEN MergeOutcome(r.wd, store, head, [hs EXCEPT ![head.name] = HashRef(other_hash)],
                         mh, exists, content, "ok", <<>>)
       ELSE MergeOutcome(r.wd, store, r.HEAD, hs, mh, exists, content, "ok", <<>>)

\* the three-way merge: merge_commits, then the index and MERGE_HEAD are written
ThreeWay(fs, store, head, hs, mh, exists, content, head_hash, other_hash, base) ==
    LET index == IF exists THEN DictOfLines(FileLines(content), {}) ELSE {}
        r == merge_commits(fs, store, index, head_hash, other_hash, base)
    IN IF r.s.err # "ok"
       THEN MergeOutcome(r.s.fs, r.s.store, head, hs, mh, exists, content, r.s.err, r.actions)
       ELSE MergeOutcome(r.s.fs, r.s.store, head, hs, other_hash, TRUE,
                         write_index(r.s.index), "ok", r.actions)

\* Repository.merge past the test of the working directory: the other ref
\* is resolved and the merge base decides between the fast-forward and the
\* three-way merge
MergeResolved(fs, store, head, hs, mh, exists, content, other) ==
    LET unchanged(e) == MergeOutcome(fs, store, head, hs, mh, exists, content, e, <<>>)
        hc == head_commit(head, hs)
        oc == resolve_ref(head, hs, other)
    IN IF oc.err # "ok" THEN unchanged(oc.err)
       ELSE IF oc.ref.t = "none" \/ oc.ref.hash \notin CommitsOf(store)
       THEN unchanged("RepositoryError")
       ELSE IF merge_base(store, hc.ref.hash, oc.ref.hash) = hc.ref.hash
       THEN FastForward(fs, store, head, hs, mh, exists, content, oc.ref.hash)
       ELSE ThreeWay(fs, store, head, hs, mh, exists, content, hc.ref.hash, oc.ref.hash,
                     merge_base(store, hc.ref.hash, oc.ref.hash))

\* variant: the working directory is not compared with HEAD
RepoMerge_DirtyAllowed(fs, store, head, hs, mh, exists, content, other) ==
    LET hc == head_commit(head, hs)
    IN IF hc.err # "ok" \/ hc.ref.t = "none" \/ hc.ref.hash \notin CommitsOf(store)
       THEN MergeOutcome(fs, store, head, hs, mh, exists, content, "RepositoryError", <<>>)
       ELSE MergeResolved(fs, store, head, hs, mh, exists, content, other)

\* Repository.merge(other_ref): fails unless the working directory is clean
\* against HEAD, before anything else is done
RepoMerge(fs, store, head, hs, mh, exists, content, other) ==
    LET unchanged(e) == MergeOutcome(fs, store, head, hs, mh, exists, content, e, <<>>)
        hc == head_commit(head, hs)
    IN IF hc.err # "ok" \/ hc.ref.t = "none" \/ hc.ref.hash \notin CommitsOf(store)
       THEN unchanged("RepositoryError")
       ELSE IF WorkTreeHash(fs) # CommitTree(hc.ref.hash) THEN unchanged("RepositoryError")
       ELSE MergeResolved(fs, store, head, hs, mh, exists, content, other)

\* Repository.merge(other)
Merge(other) ==
    \E r \in {RepoMerge(wd, objects, HEAD, refs, MERGE_HEAD, dirIndex # 0, IndexContent, other)} :
       /\ wd' = r.wd
       /\ objects' = r.objects
       /\ HEAD' = r.HEAD
       /\ refs' = r.refs
       /\ MERGE_HEAD' = r.MERGE_HEAD
       /\ dirIndex' = IF r.exists THEN 1 ELSE 0
       /\ inodes' = [inodes EXCEPT ![1] = r.content]
       /\ last' = LastCall("merge", other, r.res, r.actions)
       /\ UNCHANGED <<dirLock, wpc, wop, wlock, wold, wpos, winserted, wres, wtries,
                      rpc, rino, rpos, rdict, rseen, serial, serialPrev, opsStarted,
                      readsStarted>>

\* the user stages a file with update_index before the merge
MergeStaged == {[abs |-> FALSE, parts |-> << <<"a">> >>]}

\* the refs handed to merge: commits by hash, the branch dev, and a missing tag
MergeTargets ==
    {HashRef(c) : c \in CommitsOf(objects)} \cup {branch_ref("dev")}
    \cup {SymRef(TagPath[t]) : t \in TagNames}

\* the trees that differ from fs at the one name b of the top level
DirtyOf(fs) == {w \in EditsOf(fs) : \A q \in Paths : q[1] # "b" => w[q] = fs[q]}

\* the trees of the first commit: nothing or a file at the name b
MergeFirstTrees == {t \in FirstTrees : ~IsDir(t, <<"b">>)}

\* A repository with a first commit and two commits made from trees edited
\* below one name.  The head commit is the first commit (forward) or its
\* child; the other commit, on the branch dev, is a child of the first
\* commit or has no parent.  HEAD is attached to the default branch or holds
\* the head commit's hash.  The working directory holds the head commit's
\* tree, possibly changed at one name.
MergeInit ==
    \E t0 \in MergeFirstTrees, forward, related \in BOOLEAN :
      \E attached \in (IF forward THEN BOOLEAN ELSE {TRUE}),
         th \in (IF forward \/ ~related THEN {t0} ELSE EditsOf(t0)),
         to \in EditsOf(t0) :
        \E w \in (IF attached /\ related /\ th = t0 THEN DirtyOf(th) ELSE {th}) :
          LET c0 == CommitOf(t0, NoneHash)
              ch == IF forward THEN c0 ELSE CommitOf(th, c0)
              co == CommitOf(to, IF related THEN c0 ELSE NoneHash)
          IN /\ forward => related
             /\ wd = w
             /\ objects = UNION {TreeObjects(BuildTree(t, <<>>)) : t \in {t0, th, to}}
                          \cup {c0, ch, co}
             /\ HEAD = IF attached THEN branch_ref(DEFAULT_BRANCH) ELSE HashRef(ch)
             /\ MERGE_HEAD = NoneHash
             /\ refs = [n \in RefNames |->
                           IF n = RefPath[DEFAULT_BRANCH] THEN HashRef(ch)
                           ELSE IF n = RefPath["dev"] THEN HashRef(co) ELSE AbsentRef]
             /\ last = LastCall("init", NoRef, "ok", NoneHash)

\* a file is staged, then one merge is run
MergeNext ==
    \/ /\ last.op = "init"
       /\ \E raw \in MergeStaged : UpdateIndex(raw, 1)
    \/ /\ last.op \in {"init", "update_index"}
       /\ \E t \in MergeTargets : Merge(t)

IndexMergeInit == IndexInit /\ MergeInit

SpecMerge == IndexMergeInit /\ [][MergeNext]_vars

(***************************************************************************)
(* Properties of Repository.merge.                                         *)
(***************************************************************************)
\* the commits a merge step works on, taken before the step
MergeHead == head_commit(HEAD, refs).ref.hash
MergeOther == resolve_ref(HEAD, refs, last'.target).ref.hash

\* a step that runs merge on a clean working directory with two commits
CleanMergeStep ==
    /\ last'.op = "merge"
    /\ head_commit(HEAD, refs).err = "ok" /\ MergeHead \in CommitsOf(objects)
    /\ resolve_ref(HEAD, refs, last'.target).err = "ok" /\ MergeOther \in CommitsOf(objects)
    /\ WorkTreeHash(wd) = CommitTree(MergeHead)

\* the blob a tree holds at a path, NoneHash when it holds no file there
FileHashAt(tree, q) ==
    IF RecordAt(tree, q).type = "blob" THEN RecordAt(tree, q).hash ELSE NoneHash

\* the content of the file of a directory at a path, NoneHash when there is none
WdFile(fs, q) == IF IsFile(fs, q) THEN fs[q].h ELSE NoneHash

\* t2 differs from t1 in the file at p and in nothing but p and the
\* directories that lead to it
ChangesOnly(t1, t2, p) ==
    /\ {q \in Paths : FileHashAt(t1, q) # FileHashAt(t2, q)} = {p}
    /\ \A q \in Paths : RecordAt(t1, q).type # RecordAt(t2, q).type => IsPrefix(q, p)

\* what the merge of disjoint edits has to leave
DisjointMerged(pH, pO) ==
    /\ last'.res = "ok"
    /\ WdFile(wd', pH) = FileHashAt(CommitTree(MergeHead), pH)
    /\ WdFile(wd', pO) = FileHashAt(CommitTree(MergeOther), pO)
    /\ \A i \in DOMAIN last'.ret : last'.ret[i].type # "CONFLICT"
    /\ \A q \in Paths : IsFile(wd', q) => ~HasMarkers(wd'[q].h)

\* the edits of HEAD at pH and of other at pO, relative to the merge base
DisjointEdits(base, pH, pO) ==
    /\ base # NoneHash
    /\ pH # pO
    /\ ChangesOnly(CommitTree(base), CommitTree(MergeHead), pH)
    /\ ChangesOnly(CommitTree(base), CommitTree(MergeOther), pO)

C21_Step ==
    CleanMergeStep =>
        \A pH, pO \in Paths :
            DisjointEdits(merge_base(objects, MergeHead, MergeOther), pH, pO)
            => DisjointMerged(pH, pO)

\* C21: when HEAD changes only the path pH and other only the path pO
\* relative to the merge base, and pH differs from pO, merge(other) leaves
\* HEAD's version of pH and other's version of pO in the working tree,
\* reports no CONFLICT action and writes no conflict markers.
C21_DisjointEditsMergeClean == [][C21_Step]_vars

\* a step that runs merge on a clean working directory whose merge base with
\* the other commit is the HEAD commit
FastForwardStep ==
    /\ CleanMergeStep
    /\ merge_base(objects, MergeHead, MergeOther) = MergeHead

\* what checkout(other) followed by the update of the branch HEAD is attached
\* to leaves
CheckoutThenUpdate ==
    LET r == checkout(wd, objects, HEAD, refs, MergeOther)
    IN [wd |-> r.wd,
        HEAD |-> IF HEAD.t = "sym" THEN HEAD ELSE r.HEAD,
        refs |-> IF HEAD.t = "sym" THEN [refs EXCEPT ![HEAD.name] = HashRef(MergeOther)]
                 ELSE refs]

C22_Step ==
    FastForwardStep =>
        /\ last'.res = "ok"
        /\ CommitsOf(objects') = CommitsOf(objects)
        /\ head_commit(HEAD', refs') = Resolved(HashRef(MergeOther))
        /\ WorkTreeHash(wd') = CommitTree(MergeOther)
        /\ [wd |-> wd', HEAD |-> HEAD', refs |-> refs'] = CheckoutThenUpdate

\* C22: when the merge base of HEAD and other is the HEAD commit,
\* merge(other) creates no commit object, and afterwards head_commit() is
\* other and the working tree is other's tree, as checkout(other) followed
\* by the update of the current branch ref leaves them.
C22_FastForwardIsCheckout == [][C22_Step]_vars

C23_Step ==
    (/\ last'.op = "merge"
     /\ head_commit(HEAD, refs).err = "ok" /\ MergeHead \in CommitsOf(objects)
     /\ WorkTreeHash(wd) # CommitTree(MergeHead))
    => /\ last'.res = "RepositoryError"
       /\ UNCHANGED <<wd, dirIndex, inodes, HEAD, refs, MERGE_HEAD, objects>>

\* C23: when the working directory differs from HEAD, be it by a single
\* untracked file, merge(other) fails with RepositoryError before it
\* resolves other, and leaves the working tree, the index, every ref and
\* MERGE_HEAD as they were.
C23_DirtyMergeRefused == [][C23_Step]_vars

\* a merge of a ref that does not resolve, refused for an untracked file b
\* in the working directory
C23_Witness ==
    /\ last.op = "merge" /\ last.res = "RepositoryError"
    /\ resolve_ref(HEAD, refs, last.target).err # "ok"
    /\ IsFile(wd, <<"b">>)
    /\ RecordAt(CommitTree(head_commit(HEAD, refs).ref.hash), <<"b">>) = NoRecord
    /\ \A q \in Paths : q[1] # "b" =>
          WdFile(wd, q) = FileHashAt(CommitTree(head_commit(HEAD, refs).ref.hash), q)

(***************************************************************************)
(* diff_trees applied to two trees, with loaders that read the store.      *)
(***************************************************************************)
\* the trees below the roots: the objects the loaders are asked for
SubtreeObjects ==
    UNION {TreeObjects(BuildTree(fs, <<>>)) \ {WorkTreeHash(fs)} : fs \in AllTrees}
    \cup {TreeHash({})}

\* an object store that holds every subtree, or every subtree but one
DiffInit ==
    /\ wd = EmptyFS
    /\ \E missing \in {{}} \cup {{h} : h \in {x \in SubtreeObjects : x.t = "tree"}} :
          objects = SubtreeObjects \ missing
    /\ HEAD = branch_ref(DEFAULT_BRANCH)
    /\ MERGE_HEAD = NoneHash
    /\ refs = [n \in RefNames |-> IF n = RefPath[DEFAULT_BRANCH] THEN NoRef ELSE AbsentRef]
    /\ last = LastCall("init", NoRef, "ok", NoneHash)

\* diff_trees(tree1, tree2, load_tree1, load_tree2)
DiffTrees(t1, t2) ==
    /\ \E D \in {diff_trees(objects, LoadTree(t1), LoadTree(t2))} :
          last' = LastCall("diff_trees", [old |-> t1, new |-> t2],
                           IF D.err THEN "DiffError" ELSE "ok", D)
    /\ UNCHANGED <<wd, objects, HEAD, refs>>
    /\ UNCHANGED <<ivars, MERGE_HEAD>>

\* one call on the store as it was set up
DiffNext ==
    /\ last.op = "init"
    /\ \E t1, t2 \in MergeTreeHashes : DiffTrees(t1, t2)

IndexDiffInit == IndexInit /\ DiffInit

SpecDiff == IndexDiffInit /\ [][DiffNext]_vars

\* the path of a Diff object: the names of its ancestors and its own
RECURSIVE DiffPath(_, _)
DiffPath(D, h) ==
    IF D.nodes[h].parent = 0 THEN <<>>
    ELSE Append(DiffPath(D, D.nodes[h].parent), D.nodes[h].record.name)

\* the Diff objects of a result: the children of handles, and theirs
RECURSIVE DiffReach(_, _)
DiffReach(D, handles) ==
    IF handles = <<>> THEN {}
    ELSE {Head(handles)} \cup DiffReach(D, D.nodes[Head(handles)].children)
         \cup DiffReach(D, Tail(handles))

\* a result as the set of its entries, each with its path, its kind, its
\* records and the path of the entry it points at
DiffEntries(D) ==
    {[path |-> DiffPath(D, h), kind |-> D.nodes[h].kind, record |-> D.nodes[h].record,
      newrec |-> D.nodes[h].newrec,
      partner |-> IF D.nodes[h].partner = 0 THEN <<>> ELSE DiffPath(D, D.nodes[h].partner)] :
        h \in DiffReach(D, D.nodes[1].children)}

DiffCall == last.op = "diff_trees"

\* C24: diff_trees(t, t) is empty for every tree t, and the diff of two
\* trees with different root hashes is not empty.
C24_EmptyDiffIffEqualTrees ==
    (DiffCall /\ last.res = "ok")
    => (last.ret.nodes[1].children = <<>> <=> last.target.old = last.target.new)

\* a diff of two different trees that holds two entries, and a diff of a
\* tree with itself
C24_Witness ==
    /\ DiffCall /\ last.res = "ok"
    /\ last.target.old # last.target.new
    /\ Len(last.ret.nodes[1].children) = 2
    /\ diff_trees(objects, LoadTree(last.target.new), LoadTree(last.target.new)).nodes[1].children = <<>>

\* an entry with the two sides exchanged
DualEntry(e) ==
    [path |-> e.path,
     kind |-> CASE e.kind = "Added" -> "Removed"
                [] e.kind = "Removed" -> "Added"
                [] e.kind = "MovedFrom" -> "MovedTo"
                [] e.kind = "MovedTo" -> "MovedFrom"
                [] OTHER -> e.kind,
     record |-> IF e.kind = "Modified" THEN e.newrec ELSE e.record,
     newrec |-> IF e.kind = "Modified" THEN e.record ELSE e.newrec,
     partner |-> e.partner]

\* the diff in the other direction is the dual of the diff D
IsDualOf(R, D) == ~R.err /\ DiffEntries(R) = {DualEntry(e) : e \in DiffEntries(D)}

\* C25: diff_trees(t2, t1) is diff_trees(t1, t2) with Added and Removed
\* exchanged, MovedFrom and MovedTo exchanged at the same paths, and the old
\* and new records of every Modified exchanged.
C25_DiffInverseDuality ==
    (DiffCall /\ last.res = "ok")
    => IsDualOf(diff_trees(objects, LoadTree(last.target.new), LoadTree(last.target.old)),
                last.ret)

\* the trees t1 and t2 differ only in that the file with hash H sits at p1
\* in t1 and at p2 in t2; a directory may exist on one side only when it
\* leads to p1 or to p2
MovedOnly(t1, t2, p1, p2) ==
    /\ p1 # p2
    /\ FileHashAt(t1, p1) # NoneHash
    /\ FileHashAt(t2, p2) = FileHashAt(t1, p1)
    /\ RecordAt(t1, p2) = NoRecord /\ RecordAt(t2, p1) = NoRecord
    /\ \A q \in Paths \ {p1, p2} :
          /\ FileHashAt(t1, q) = FileHashAt(t2, q)
          /\ RecordAt(t1, q).type # RecordAt(t2, q).type => IsPrefix(q, p1) \/ IsPrefix(q, p2)

\* the entries of a result that is one move from p1 to p2
OneMove(entries, p1, p2) ==
    /\ {[path |-> e.path, partner |-> e.partner] : e \in {x \in entries : x.kind = "MovedTo"}}
           = {[path |-> p1, partner |-> p2]}
    /\ {[path |-> e.path, partner |-> e.partner] : e \in {x \in entries : x.kind = "MovedFrom"}}
           = {[path |-> p2, partner |-> p1]}
    /\ \A e \in entries : e.kind \notin {"Added", "Removed"}

\* C26: for two trees that differ only in that one file sits at P1 in the
\* old tree and at P2 in the new one, the diff holds exactly one MovedTo at
\* P1 and exactly one MovedFrom at P2, pointing at each other, and no Added
\* or Removed entry.
C26_MoveDetected ==
    (DiffCall /\ last.res = "ok")
    => \A p1, p2 \in Paths :
          MovedOnly(last.target.old, last.target.new, p1, p2)
          => OneMove(DiffEntries(last.ret), p1, p2)

\* C27: a diff that was returned holds, for every added or removed
\* directory, the entries of that directory: a subtree that could not be
\* loaded ends the call with DiffError.
C27_LoadFailureIsFatal ==
    (DiffCall /\ last.res = "ok")
    => \A e \in DiffEntries(last.ret) :
          (e.record.type = "tree" /\ e.kind \in {"Added", "Removed"})
          => e.record.hash \in objects

(***************************************************************************)
(* build_tree_from_index (index.py): the index as a trie, then as trees.   *)
(***************************************************************************)
\* the paths of the index entries, and the longest index
TreeIndexPaths == {<<"a">>, <<"b">>, <<"a", "a">>, <<"a", "b">>, <<"a", "a", "a">>}
MaxIndexEntries == 3

\* the dictionaries handed over: entries in insertion order, each path once
TreeIndexes ==
    {idx \in UNION {[1..n -> TreeIndexPaths \X Contents] : n \in 0..MaxIndexEntries} :
        \A i, j \in DOMAIN idx : i # j => idx[i][1] # idx[j][1]}

\* a node of the trie: a dictionary, or the hash of a file
TrieDir == [dir |-> TRUE, hash |-> NoneHash]
TrieFile(h) == [dir |-> FALSE, hash |-> h]

\* `for part in parts[:-1]': the dictionaries on the way are created; a
\* string on the way is the conflict
RECURSIVE TrieWalk(_, _, _)
TrieWalk(trie, parts, k) ==
    IF k >= Len(parts) THEN [err |-> "ok", trie |-> trie]
    ELSE LET pre == SubSeq(parts, 1, k)
             t1 == IF pre \in DOMAIN trie THEN trie ELSE DictPut(trie, pre, TrieDir)
         IN IF ~t1[pre].dir THEN [err |-> "ValueError", trie |-> t1]
            ELSE TrieWalk(t1, parts, k + 1)

\* current[parts[-1]] = file_hash: whatever stood there is replaced
TrieSet(trie, parts, h) ==
    [err |-> "ok",
     trie |-> [q \in {x \in DOMAIN trie : ~IsPrefix(parts, x)} \cup {parts} |->
                  IF q = parts THEN TrieFile(h) ELSE trie[q]]]

\* the loop over index.items()
RECURSIVE TrieOfIndex(_, _)
TrieOfIndex(idx, trie) ==
    IF idx = <<>> THEN [err |-> "ok", trie |-> trie]
    ELSE LET w == TrieWalk(trie, Head(idx)[1], 1)
         IN IF w.err # "ok" THEN w
            ELSE LET s == TrieSet(w.trie, Head(idx)[1], BlobHash(Head(idx)[2]))
                 IN IF s.err # "ok" THEN s ELSE TrieOfIndex(Tail(idx), s.trie)

\* _build_tree_recursive(node, objects_dir): the records of the node at q
RECURSIVE build_tree_recursive(_, _)
build_tree_recursive(trie, q) ==
    {IF trie[c].dir
     THEN TreeRecord("tree", TreeHash(build_tree_recursive(trie, c)), c[Len(c)])
     ELSE TreeRecord("blob", trie[c].hash, c[Len(c)]) :
        c \in {x \in DOMAIN trie : Len(x) = Len(q) + 1 /\ IsPrefix(q, x)}}

\* build_tree_from_index(index, objects_dir): the root hash and the trees saved
build_tree_from_index(idx) ==
    LET t == TrieOfIndex(idx, [x \in {} |-> TrieDir])
        records == build_tree_recursive(t.trie, <<>>)
    IN IF t.err # "ok" THEN [res |-> t.err, ret |-> NoneHash, saved |-> {}]
       ELSE [res |-> "ok", ret |-> TreeHash(records),
             saved |-> {h \in TreeObjects(records) : h.t = "tree"}]

\* an empty object store
TreeIndexInit ==
    /\ wd = EmptyFS
    /\ objects = {}
    /\ HEAD = branch_ref(DEFAULT_BRANCH)
    /\ MERGE_HEAD = NoneHash
    /\ refs = [n \in RefNames |-> IF n = RefPath[DEFAULT_BRANCH] THEN NoRef ELSE AbsentRef]
    /\ last = LastCall("init", NoRef, "ok", NoneHash)

\* build_tree_from_index(index, objects_dir)
BuildTreeFromIndex(idx) ==
    /\ \E r \in {build_tree_from_index(idx)} :
          /\ objects' = objects \cup r.saved
          /\ last' = LastCall("build_tree_from_index", idx, r.res, r.ret)
    /\ UNCHANGED <<wd, HEAD, refs>>
    /\ UNCHANGED <<ivars, MERGE_HEAD>>

\* one call on an empty store
TreeIndexNext ==
    /\ last.op = "init"
    /\ \E idx \in TreeIndexes : BuildTreeFromIndex(idx)

IndexTreeIndexInit == IndexInit /\ TreeIndexInit

SpecTreeIndex == IndexTreeIndexInit /\ [][TreeIndexNext]_vars

\* the index holds a path as a file and a path below it
PathConflict(idx) ==
    \E i, j \in DOMAIN idx : idx[i][1] # idx[j][1] /\ IsPrefix(idx[i][1], idx[j][1])

FsItems_MetaKept(fs, cur) == ListDir(fs, cur)

\* for item in current_path.iterdir(): if item.name == repo_dir_name: continue
FsItems(fs, cur) == {n \in ListDir(fs, cur) : n # RepoDirName}

\* tree_records of current_path once each of its directories has a hash
FsTreeRecords(fs, cur, dir_hashes) ==
    {IF IsFile(fs, Append(cur, n))
     THEN TreeRecord("blob", fs[Append(cur, n)].h, n)
     ELSE TreeRecord("tree", dir_hashes[Append(cur, n)], n) : n \in FsItems(fs, cur)}

\* while stack: a directory with a subdirectory not yet hashed is pushed back
\* under that subdirectory; otherwise its tree is hashed.  The order of
\* iterdir() only decides which of the pending subdirectories comes first.
RECURSIVE FsTreeLoop(_, _, _)
FsTreeLoop(fs, stack, dir_hashes) ==
    IF stack = <<>> THEN dir_hashes
    ELSE LET cur == stack[Len(stack)]
             rest == SubSeq(stack, 1, Len(stack) - 1)
             pending == {n \in FsItems(fs, cur) :
                            /\ IsDir(fs, Append(cur, n))
                            /\ Append(cur, n) \notin DOMAIN dir_hashes}
         IN IF pending # {}
            THEN FsTreeLoop(fs, rest \o <<cur, Append(cur, CHOOSE n \in pending : TRUE)>>,
                            dir_hashes)
            ELSE FsTreeLoop(fs, rest,
                            DictPut(dir_hashes, cur, TreeHash(FsTreeRecords(fs, cur, dir_hashes))))

\* build_tree_from_fs(path, repo_dir_name): root_hash and tree_lookup;
\* nothing is written
build_tree_from_fs(fs) ==
    LET dir_hashes == FsTreeLoop(fs, << <<>> >>, [x \in {} |-> NoneHash])
    IN [root_hash |-> dir_hashes[<<>>], tree_lookup |-> {dir_hashes[q] : q \in DOMAIN dir_hashes}]

\* Repository.diff_commit_dir(commit, path): the top-level entries of the diff
diff_commit_dir(store, commit, fs) ==
    LET dir == build_tree_from_fs(fs)
    IN IF CommitTree(commit) = dir.root_hash THEN <<>>
       ELSE diff_trees(store \cup dir.tree_lookup, LoadTree(CommitTree(commit)),
                       LoadTree(dir.root_hash)).nodes[1].children

\* the working directory as it is on disk: with the metadata directory and a
\* file in it and, when nested, with an entry of that name inside directory a
MetaDirPaths == {<<RepoDirName>>, <<RepoDirName, "a">>, <<"a", RepoDirName>>}
WithMeta(fs, nested) ==
    [q \in DOMAIN fs \cup MetaDirPaths |->
        IF q = <<RepoDirName>> THEN DirNode
        ELSE IF q = <<RepoDirName, "a">> THEN FileNode(BlobHash(1))
        ELSE IF q = <<"a", RepoDirName>>
             THEN IF nested /\ IsDir(fs, <<"a">>) THEN FileNode(BlobHash(1)) ELSE NoNode
        ELSE fs[q]]

\* a new repository in a working directory of any content
CommitInit ==
    /\ wd \in AllTrees
    /\ objects = {}
    /\ HEAD = branch_ref(DEFAULT_BRANCH)
    /\ MERGE_HEAD = NoneHash
    /\ refs = [n \in RefNames |-> IF n = RefPath[DEFAULT_BRANCH] THEN NoRef ELSE AbsentRef]
    /\ last = LastCall("init", NoRef, "ok", NoneHash)

\* commits, one after the other, with no change of the directory in between
CommitNext == \E a \in Authors, m \in Messages : CommitWorkingDir(a, m)

IndexCommitInit == IndexInit /\ CommitInit

SpecCommit == IndexCommitInit /\ [][CommitNext]_vars

BadCommitCall ==
    \E a \in Authors, m \in Messages : (a = "" \/ m = "") /\ CommitWorkingDir(a, m)

C30_Step ==
    BadCommitCall
    => /\ last'.op = "commit" /\ last'.res = "ValueError"
       /\ objects' = objects
       /\ HEAD' = HEAD
       /\ refs' = refs

\* C30: commit_working_dir with an empty author or an empty message fails
\* with ValueError; nothing is written to the object store, and HEAD and
\* every branch ref keep their values.
C30_EmptyAuthorOrMessageRefused == [][C30_Step]_vars

\* a refused commit in a repository with a commit on its branch and a file
\* whose content is not in the object store
C30_Witness ==
    /\ last.op = "commit" /\ last.res = "ValueError"
    /\ IsBranchRef(HEAD) /\ refs[HEAD.name].t = "hash"
    /\ \E n \in EditNames : IsFile(wd, <<n>>) /\ wd[<<n>>].h \notin objects

(***************************************************************************)
(* Repository.log                                                          *)
(***************************************************************************)
\* variant: the walk stops after the tip
LogLoop_TipOnly(store, current_hash) ==
    IF current_hash = NoneHash THEN [res |-> "ok", entries |-> <<>>]
    ELSE IF current_hash \notin store THEN [res |-> "RepositoryError", entries |-> <<>>]
    ELSE [res |-> "ok", entries |-> <<current_hash>>]

\* while current_hash: load_commit, yield, current_hash = commit.parent; the
\* entries yielded before a commit fails to load stay yielded
RECURSIVE LogLoop(_, _)
LogLoop(store, current_hash) ==
    IF current_hash = NoneHash THEN [res |-> "ok", entries |-> <<>>]
    ELSE IF current_hash \notin store THEN [res |-> "RepositoryError", entries |-> <<>>]
    ELSE LET rest == LogLoop(store, CommitParent(current_hash))
         IN [res |-> rest.res, entries |-> <<current_hash>> \o rest.entries]

\* log(tip=None), read to its end: tip = head_ref(), resolve_ref(tip), the loop
log(store, head, hs) ==
    LET tip == head_commit(head, hs)
    IN IF tip.err # "ok" THEN [res |-> tip.err, entries |-> <<>>]
       ELSE LogLoop(store, tip.ref.hash)

\* Repository.log(), the generator read to its end
Log ==
    /\ \E r \in {log(objects, HEAD, refs)} :
          last' = LastCall("log", HEAD, r.res, r.entries)
    /\ UNCHANGED <<wd, objects, HEAD, refs>>
    /\ UNCHANGED <<ivars, MERGE_HEAD>>

\* edits, commits on the default branch, and reads of the log
LogNext ==
    \/ \E n \in TopNames, node \in EditValues : EditFile(n, node)
    \/ CommitWorkingDir("ann", "msg")
    \/ Log

IndexLogInit == IndexInit /\ RepoInit

SpecLog == IndexLogInit /\ [][LogNext]_vars

\* a commit on the branch HEAD is attached to puts itself before the
\* entries the log had
C31_Step ==
    (CommitStep /\ IsBranchRef(HEAD))
    => log(objects', HEAD', refs')
          = [res |-> "ok", entries |-> <<last'.ret>> \o log(objects, HEAD, refs).entries]

\* the log read: each entry is the first parent of the one before it, the
\* last has no parent, and there is none when HEAD has no commit
C31_Read ==
    last.op = "log"
    => /\ last.res = "ok"
       /\ \A i \in DOMAIN last.ret :
             CommitParent(last.ret[i])
                 = IF i < Len(last.ret) THEN last.ret[i + 1] ELSE NoneHash
       /\ head_commit(HEAD, refs).ref.hash = NoneHash <=> last.ret = <<>>
       /\ last.ret # <<>> => last.ret[1] = head_commit(HEAD, refs).ref.hash

\* C31: after n successive commit_working_dir calls on one branch, log() from
\* HEAD ends and yields exactly those n commits, newest first, each entry's
\* commit being the first parent of the entry before it; with no commit at
\* HEAD it yields nothing.
C31_LogFollowsFirstParents == [][C31_Step]_vars /\ [](C31_Read)

\* the log read after two commits of different trees
C31_Witness ==
    /\ last.op = "log" /\ last.res = "ok"
    /\ Len(last.ret) = MaxCommits
    /\ CommitTree(last.ret[1]) # CommitTree(last.ret[2])

(***************************************************************************)
(* Tags: create_tag and delete_tag among the other operations.             *)
(***************************************************************************)
\* the commit arguments of create_tag: a commit hash, a branch, the tag itself
TagArgs ==
    {HashRef(c) : c \in CommitsOf(objects)}
    \cup {branch_ref(b) : b \in BranchNames} \cup {SymRef(TagPath[t]) : t \in TagNames}

\* commits of the empty working directory, checkouts of commits, branches
\* and tags, and the branch and tag operations
TagsNext ==
    \/ CommitWorkingDir("ann", "msg")
    \/ \E t \in CheckoutTargets \cup {SymRef(TagPath[x]) : x \in TagNames} : Checkout(t)
    \/ \E b \in BranchNames : AddBranch(b)
    \/ \E b \in BranchNames : DeleteBranch(b)
    \/ \E t \in TagNames, ref \in TagArgs : CreateTag(t, ref)
    \/ \E t \in TagNames : DeleteTag(t)

IndexTagsInit == IndexInit /\ RepoInit

SpecTags == IndexTagsInit /\ [][TagsNext]_vars

TagExists(hs, t) == hs[TagPath[t]].t # "absent"

\* create_tag(t, ref): refused for an existing tag; otherwise the tag holds
\* the hash ref resolved to, and there is no tag when it resolved to none
C32_Create(t, ref) ==
    CreateTag(t, ref)
    => \E r \in {resolve_ref(HEAD, refs, ref)} :
          IF TagExists(refs, t)
          THEN last'.res = "RepositoryError" /\ refs' = refs
          ELSE IF r.err = "ok" /\ r.ref.t = "hash"
          THEN last'.res = "ok" /\ refs' = [refs EXCEPT ![TagPath[t]] = HashRef(r.ref.hash)]
          ELSE last'.res # "ok" /\ refs' = refs

\* delete_tag(t): removes an existing tag, refused for a missing one
C32_Delete(t) ==
    DeleteTag(t)
    => IF TagExists(refs, t)
       THEN last'.res = "ok" /\ refs' = [refs EXCEPT ![TagPath[t]] = AbsentRef]
       ELSE last'.res = "RepositoryError" /\ refs' = refs

\* every other step leaves the tag as it was, there or not
C32_Frame(t) ==
    (last'.op \notin {"create_tag", "delete_tag"}) => refs'[TagPath[t]] = refs[TagPath[t]]

C32_Step ==
    \A t \in TagNames :
        /\ \A ref \in TagArgs : C32_Create(t, ref)
        /\ C32_Delete(t)
        /\ C32_Frame(t)

\* C32: a tag exists exactly from a successful create_tag until the next
\* delete_tag of its name; while it exists its ref file holds the commit hash
\* the create_tag argument resolved to and no operation changes it;
\* create_tag on an existing name fails with RepositoryError and leaves the
\* tag, create_tag with an unresolvable commit creates no tag, and
\* delete_tag of a missing tag fails with RepositoryError.
C32_TagLifecycle == [][C32_Step]_vars /\ [](\A t \in TagNames : refs[TagPath[t]].t \in {"absent", "hash"})

\* create_tag refused for a tag that holds a commit older than the commit of
\* the branch
C32_Witness ==
    /\ last.op = "create_tag" /\ last.res = "RepositoryError"
    /\ \E t \in TagNames :
          /\ refs[TagPath[t]].t = "hash"
          /\ refs[RefPath[DEFAULT_BRANCH]].t = "hash"
          /\ CommitParent(refs[RefPath[DEFAULT_BRANCH]].hash) = refs[TagPath[t]].hash

(***************************************************************************)
(* checkout (checkout.py) in a repository whose HEAD has no commit.        *)
(***************************************************************************)
\* A branch without a commit, HEAD attached to it, a commit of any tree in
\* the object store, and a working directory of any content.
EmptyHeadInit ==
    \E t \in FirstTrees :
        /\ wd \in AllTrees
        /\ objects = TreeObjects(BuildTree(t, <<>>)) \cup {CommitOf(t, NoneHash)}
        /\ HEAD = branch_ref(DEFAULT_BRANCH)
        /\ MERGE_HEAD = NoneHash
        /\ refs = [n \in RefNames |-> IF n = RefPath[DEFAULT_BRANCH] THEN NoRef ELSE AbsentRef]
        /\ last = LastCall("init", NoRef, "ok", NoneHash)

\* checkout(repo, target_commit), one whole call
CheckoutCommit(c) ==
    /\ \E r \in {checkout(wd, objects, HEAD, refs, c)} :
          /\ wd' = r.wd
          /\ HEAD' = r.HEAD
          /\ last' = LastCall("checkout", HashRef(c), r.res, NoneHash)
    /\ UNCHANGED <<objects, refs>>
    /\ UNCHANGED <<ivars, MERGE_HEAD>>

\* one checkout of the commit in the store
EmptyHeadNext ==
    /\ last.op = "init"
    /\ \E c \in CommitsOf(objects) : CheckoutCommit(c)

IndexEmptyHeadInit == IndexInit /\ EmptyHeadInit

SpecEmptyHead == IndexEmptyHeadInit /\ [][EmptyHeadNext]_vars

C33_Step ==
    (last'.op = "checkout" /\ head_commit(HEAD, refs).ref.t = "none")
    => IF wd = EmptyFS
       THEN last'.res = "ok" /\ WorkTreeHash(wd') = CommitTree(last'.target.hash)
       ELSE last'.res # "ok" /\ wd' = wd

\* C33: when HEAD resolves to no commit, checkout(target) goes on only if the
\* working directory holds nothing besides the metadata directory; with any
\* other file or directory there it fails and writes nothing, and otherwise
\* it leaves exactly the target tree.
C33_EmptyHeadCheckoutNeedsEmptyDir == [][C33_Step]_vars

(***************************************************************************)
(* The shape of a diff_trees result.                                       *)
(***************************************************************************)
\* the Diff objects reachable from the returned top-level list
DiffReachable(D) == DiffReach(D, D.nodes[1].children)

\* the parent pointer of h is the object that lists h among its children
ParentLists(D, h) ==
    /\ D.nodes[h].parent # 0
    /\ \E i \in DOMAIN D.nodes[D.nodes[h].parent].children :
          D.nodes[D.nodes[h].parent].children[i] = h

\* h is one half of a pair of moved entries that point at each other
MovePaired(D, h) ==
    \E p \in {D.nodes[h].partner} :
        /\ p # 0
        /\ p \in DiffReachable(D)
        /\ D.nodes[p].kind = (IF D.nodes[h].kind = "MovedTo" THEN "MovedFrom" ELSE "MovedTo")
        /\ D.nodes[p].partner = h
        /\ D.nodes[p].record.hash = D.nodes[h].record.hash
        /\ DiffPath(D, p) # DiffPath(D, h)

NameRank(n) == CHOOSE i \in DOMAIN NameOrder : NameOrder[i] = n

\* the children of an entry come in the order of their record names
ChildrenOrdered(D, h) ==
    \A i, j \in DOMAIN D.nodes[h].children :
        i < j => NameRank(D.nodes[D.nodes[h].children[i]].record.name)
                    <= NameRank(D.nodes[D.nodes[h].children[j]].record.name)

\* C36: in the result of diff_trees the children at every tree level, the
\* top level included, are ordered by record name, whatever kinds of
\* entries the level holds.
C36_DiffOrderedByName ==
    (DiffCall /\ last.res = "ok")
    => \A h \in {1} \cup DiffReachable(last.ret) : ChildrenOrdered(last.ret, h)

(***************************************************************************)
(* The actions of merge_commits on the working tree and the index.         *)
(***************************************************************************)
\* the index file as a mapping
IndexOfFile(exists, content) == IF exists THEN DictOfLines(FileLines(content), {}) ELSE {}

\* what the mapping holds for a path: a set with the hash token, or empty
IndexAt(index, q) == {e[2] : e \in {x \in index : x[1] = PathStr(q)}}

\* a step in which merge ran merge_commits to its end
ThreeWayStep ==
    /\ last'.op = "merge" /\ last'.res = "ok"
    /\ MERGE_HEAD' # MERGE_HEAD

ActionPaths(actions) == {actions[i].path : i \in DOMAIN actions}

\* what one action has to leave at its path
\* A path that is neither above nor below the path of an action: applying an
\* action creates the parents of its path and removes what lay below it.
ActionFree(actions, q) ==
    \A p \in ActionPaths(actions) : ~IsPrefix(p, q) /\ ~IsPrefix(q, p)

ActionApplied(a, fs, index) ==
    CASE a.type = "UPDATE" ->
            /\ fs[a.path] = FileNode(a.blob_hash)
            /\ IndexAt(index, a.path) = {<<HexToken(a.blob_hash)>>}
      [] a.type = "DELETE" ->
            /\ ~Exists(fs, a.path)
            /\ IndexAt(index, a.path) = {}
      [] OTHER ->
            /\ IsFile(fs, a.path)
            /\ IndexAt(index, a.path) = {<<HexToken(fs[a.path].h)>>}

C37_Step ==
    ThreeWayStep
    => \E before \in {IndexOfFile(dirIndex # 0, IndexContent)},
          after \in {IndexOfFile(dirIndex' # 0, inodes'[1])} :
          /\ \A i \in DOMAIN last'.ret : ActionApplied(last'.ret[i], wd', after)
          /\ \A q \in Paths \ ActionPaths(last'.ret) :
                /\ IndexAt(after, q) = IndexAt(before, q)
                /\ ActionFree(last'.ret, q) => wd'[q] = wd[q]

Running == last.op = "commit_working_dir" /\ last.res = "running"
At(pc) == Running /\ last.ret.pc = pc
Idle == ~Running

\* the locals of the running call with some of them changed
Locals(frame) == [op |-> "commit_working_dir", target |-> NoRef, res |-> "running", ret |-> frame]

NoHashes == [q \in {} |-> NoneHash]

\* commit_working_dir up to the call of save_dir: the arguments are checked,
\* head_ref() and head_commit() are read, and save_dir starts with the
\* working directory alone on its stack
CommitBegin(author, message) ==
    /\ Idle
    /\ Cardinality(CommitsOf(objects)) < MaxCommits
    /\ \E parent \in {head_commit(HEAD, refs)} :
          last' = IF author = "" \/ message = "" THEN LastCall("commit", NoRef, "ValueError", NoneHash)
                  ELSE IF HEAD.t = "absent"
                  THEN LastCall("commit", NoRef, "RepositoryError", NoneHash)
                  ELSE IF parent.err # "ok" THEN LastCall("commit", NoRef, parent.err, NoneHash)
                  ELSE Locals([pc |-> "save_dir", author |-> author, message |-> message,
                               branch |-> IF HEAD.t = "sym" THEN HEAD ELSE NoRef,
                               parent |-> parent.ref.hash,
                               stack |-> <<<<>>>>, hashes |-> NoHashes,
                               current |-> <<>>, records |-> {}, todo |-> {},
                               tree |-> NoneHash, commit |-> NoneHash])
    /\ UNCHANGED <<wd, objects, HEAD, refs>>
    /\ UNCHANGED <<ivars, MERGE_HEAD>>

\* save_dir, the head of the while loop: the directory on top of the stack
\* is taken and its listing starts; with the stack empty save_dir returns
\* the hash of the working directory's tree
SaveDirPop ==
    /\ At("save_dir")
    /\ \E f \in {last.ret} :
          last' = IF f.stack = <<>>
                  THEN Locals([f EXCEPT !.pc = "save_commit", !.tree = f.hashes[<<>>]])
                  ELSE Locals([f EXCEPT !.pc = "iterdir",
                                        !.current = f.stack[Len(f.stack)],
                                        !.stack = SubSeq(f.stack, 1, Len(f.stack) - 1),
                                        !.records = {},
                                        !.todo = ListDir(wd, f.stack[Len(f.stack)])])
    /\ UNCHANGED <<wd, objects, HEAD, refs>>
    /\ UNCHANGED <<ivars, MERGE_HEAD>>

\* save_dir, one entry of current_path.iterdir(), in whatever order the
\* file system lists them: a file is saved as a blob and recorded, a
\* directory saved before is recorded, and any other directory is pushed on
\* the stack after the current one, which ends the listing
SaveDirItem ==
    /\ At("iterdir")
    /\ \E f \in {last.ret} : \E n \in f.todo : \E item \in {Append(f.current, n)} :
          IF n = RepoDirName
          THEN /\ last' = Locals([f EXCEPT !.todo = f.todo \ {n}])
               /\ UNCHANGED objects
          ELSE IF IsFile(wd, item)
          THEN /\ objects' = objects \cup {hash_file(wd, item)}
               /\ last' = Locals([f EXCEPT !.todo = f.todo \ {n},
                                           !.records = f.records \cup
                                               {TreeRecord("blob", hash_file(wd, item), n)}])
          ELSE IF item \in DOMAIN f.hashes
          THEN /\ last' = Locals([f EXCEPT !.todo = f.todo \ {n},
                                           !.records = f.records \cup
                                               {TreeRecord("tree", f.hashes[item], n)}])
               /\ UNCHANGED objects
          ELSE /\ last' = Locals([f EXCEPT !.pc = "save_dir",
                                           !.stack = f.stack \o <<f.current, item>>])
               /\ UNCHANGED objects
    /\ UNCHANGED <<wd, HEAD, refs>>
    /\ UNCHANGED <<ivars, MERGE_HEAD>>

\* save_dir, the else branch of the for loop: every entry was recorded, the
\* tree is saved and its hash kept for the parent directory
SaveDirTree ==
    /\ At("iterdir")
    /\ last.ret.todo = {}
    /\ \E f \in {last.ret} : \E h \in {TreeHash(f.records)} :
          /\ objects' = objects \cup {h}
          /\ last' = Locals([f EXCEPT !.pc = "save_dir",
                                      !.hashes = [q \in DOMAIN f.hashes \cup {f.current} |->
                                                     IF q = f.current THEN h ELSE f.hashes[q]]])
    /\ UNCHANGED <<wd, HEAD, refs>>
    /\ UNCHANGED <<ivars, MERGE_HEAD>>

\* variant: the commit object is not written
SaveCommit_NotWritten ==
    /\ At("save_commit")
    /\ \E f \in {last.ret} :
          \E c \in {CommitHash(f.tree, f.author, f.message, 0, f.parent)} :
             /\ UNCHANGED objects
             /\ last' = Locals([f EXCEPT !.pc = "update_ref", !.commit = c])
    /\ UNCHANGED <<wd, HEAD, refs>>
    /\ UNCHANGED <<ivars, MERGE_HEAD>>

\* commit_working_dir after save_dir: the commit is built and saved
SaveCommit ==
    /\ At("save_commit")
    /\ \E f \in {last.ret} :
          \E c \in {CommitHash(f.tree, f.author, f.message, 0, f.parent)} :
             /\ objects' = objects \cup {c}
             /\ last' = Locals([f EXCEPT !.pc = "update_ref", !.commit = c])
    /\ UNCHANGED <<wd, HEAD, refs>>
    /\ UNCHANGED <<ivars, MERGE_HEAD>>

\* commit_working_dir, its end: the branch HEAD was attached to is moved to
\* the commit, and the commit is returned
UpdateRef ==
    /\ At("update_ref")
    /\ \E f \in {last.ret} :
          IF f.branch.t = "sym" /\ RefFile(refs, f.branch.name).t = "absent"
          THEN /\ last' = LastCall("commit", NoRef, "RepositoryError", NoneHash)
               /\ UNCHANGED refs
          ELSE /\ refs' = IF f.branch.t = "sym"
                          THEN [refs EXCEPT ![f.branch.name] = HashRef(f.commit)]
                          ELSE refs
               /\ last' = LastCall("commit", NoRef, "ok", f.commit)
    /\ UNCHANGED <<wd, objects, HEAD>>
    /\ UNCHANGED <<ivars, MERGE_HEAD>>

\* the process stops in the middle of commit_working_dir
StopCommit ==
    /\ Running
    /\ last' = LastCall("commit", NoRef, "stopped", NoneHash)
    /\ UNCHANGED <<wd, objects, HEAD, refs>>
    /\ UNCHANGED <<ivars, MERGE_HEAD>>

\* init() in a directory that already holds files
StepsInit ==
    /\ wd \in FirstTrees
    /\ objects = {}
    /\ HEAD = branch_ref(DEFAULT_BRANCH)
    /\ MERGE_HEAD = NoneHash
    /\ refs = [n \in RefNames |-> IF n = RefPath[DEFAULT_BRANCH] THEN NoRef ELSE AbsentRef]
    /\ last = LastCall("init", NoRef, "ok", NoneHash)

StepsNext ==
    \/ Idle /\ \E n \in EditNames, node \in EditValues : EditFile(n, node)
    \/ Idle /\ \E t \in CheckoutTargets : Checkout(t)
    \/ \E a \in Authors, m \in Messages : CommitBegin(a, m)
    \/ SaveDirPop
    \/ SaveDirItem
    \/ SaveDirTree
    \/ SaveCommit
    \/ UpdateRef
    \/ StopCommit

IndexStepsInit == IndexInit /\ StepsInit

\* commit_working_dir step by step, stopped anywhere, between edits and checkouts
SpecCommitSteps == IndexStepsInit /\ [][StepsNext]_vars

\* the commits named by a branch ref that is not empty or by a detached HEAD
NamedCommits ==
    {refs[RefPath[b]].hash : b \in {x \in BranchNames : refs[RefPath[x]].t = "hash"}}
    \cup (IF HEAD.t = "hash" THEN {HEAD.hash} ELSE {})

\* a commit is in the store with its tree, every subtree and every blob
CommitComplete(store, c) ==
    /\ c \in store
    /\ c.t = "commit"
    /\ TreeObjects(CommitTree(c).r) \subseteq store

\* what an object refers to directly
RefersTo(h) ==
    IF h.t = "tree" THEN {rec.hash : rec \in h.r}
    ELSE IF h.t = "commit" THEN {CommitTree(h)}
    ELSE {}

\* an object is written after the objects it refers to, and a ref is written
\* after the commit it names
C38_Step ==
    /\ \A h \in objects' \ objects : RefersTo(h) \subseteq objects
    /\ \A n \in DOMAIN refs : refs'[n] # refs[n] /\ refs'[n].t = "hash" => refs'[n].hash \in objects

C38_Named == \A c \in NamedCommits : CommitComplete(objects, c)

\* C38: at every step of commit_working_dir, and so wherever it stops, every
\* branch ref that is not empty and a detached HEAD name a commit that is in
\* the object store together with its tree, all its subtrees and all their
\* blobs; a tree is saved after its subtrees and blobs, the commit after its
\* tree, and the branch ref is moved after the commit is saved.
C38_ObjectsBeforeRef == [](C38_Named) /\ [][C38_Step]_vars

\* a second commit is half way: the branch names the first commit, a
\* subdirectory's tree is already saved and the tree of the working
\* directory is not
C38_Witness ==
    /\ At("iterdir")
    /\ last.ret.current = <<>>
    /\ \E q \in DOMAIN last.ret.hashes : Len(q) = 1 /\ last.ret.hashes[q] \in objects
    /\ refs[RefPath[DEFAULT_BRANCH]].t = "hash"
    /\ WorkTreeHash(wd) \notin objects

(***************************************************************************)
(* HEAD and the branch it is attached to.                                  *)
(***************************************************************************)
\* the ref file HEAD names exists, and head_commit() returns
HeadAttached ==
    HEAD.t = "sym" => /\ RefFile(refs, HEAD.name).t # "absent"
                      /\ head_commit(HEAD, refs).err = "ok"

\* C39: after init, whatever add_branch, delete_branch, commit_working_dir and
\* checkout calls are made, whenever HEAD is a SymRef the branch ref file it
\* names exists and head_commit() does not fail; delete_branch does not
\* remove the branch HEAD is attached to.
C39_AttachedHeadNeverDangles == []HeadAttached

====
